---- MODULE Spec2Model ----
(***************************************************************************)
(* Model of the trustworthy_bim pipeline: ifc_to_canonical.py (run loop,   *)
(* process_one_pack, unit normalization, validation) and llm_runner.py     *)
(* (class_mapping, property_extraction).  Spec is a run of main();         *)
(* SpecCalls is normalize_unit called on its own; SpecClassify is          *)
(* _mock_map_to_tier1 called on its own.                                   *)
(*                                                                         *)
(* Conventions                                                             *)
(*  - A Python str is a sequence of one-character strings, so that         *)
(*    lower(), strip(), substring tests and the regular expressions are    *)
(*    computed, not assumed.                                               *)
(*  - A JSON / Python value is a tagged record: Null, Bool, Num, Str,      *)
(*    List, Dict.  Absent marks a key that is not in a dict.               *)
(*  - A float is an exact decimal rational n/(d*10^e) in canonical form    *)
(*    (rounding error of IEEE doubles is not modelled).                    *)
(*  - uuid5 is modelled as an injective function of the hashed name.       *)
(***************************************************************************)
EXTENDS Integers, Sequences, FiniteSets, TLC

(***************************************************************************)
(* State of one run of main()                                              *)
(***************************************************************************)
VARIABLES
    infile,        \* the lines of the input JSONL file
    args,          \* --tolerant and --limit
    rule_tables,   \* the rule tables and configuration loaded before the loop
    line_no,       \* lines read so far (the index of enumerate)
    total,         \* non-blank lines counted
    errors,        \* records whose processing raised
    assets_rows,   \* the four output row lists
    props_rows,
    rel_rows,
    flag_rows,
    missing_files, \* the files that do not exist: rule files, "input"
    pc,            \* "loop", "write" (after the loop), "done"; "open" and "failed"
                   \* when the input file cannot be opened
    outputs,       \* the files written at the end, None before
    log,           \* history: one entry per loop iteration
    call,          \* the arguments of a direct call of normalize_unit, None in a run of main()
    ret            \* what the direct calls returned so far

(***************************************************************************)
(* Strings                                                                 *)
(***************************************************************************)
UpperChars == <<"A","B","C","D","E","F","G","H","I","J","K","L","M",
                "N","O","P","Q","R","S","T","U","V","W","X","Y","Z">>
LowerChars == <<"a","b","c","d","e","f","g","h","i","j","k","l","m",
                "n","o","p","q","r","s","t","u","v","w","x","y","z">>
DigitChars == <<"0","1","2","3","4","5","6","7","8","9">>

IsUpper(c) == \E i \in DOMAIN UpperChars : UpperChars[i] = c
IsLowerAz(c) == \E i \in DOMAIN LowerChars : LowerChars[i] = c
IsDigit(c) == \E i \in DOMAIN DigitChars : DigitChars[i] = c
IsSpace(c) == c \in {" ", "\t"}
DigitVal(c) == (CHOOSE i \in DOMAIN DigitChars : DigitChars[i] = c) - 1

\* str.lower() on one character
LowerChar(c) ==
    IF IsUpper(c) THEN LowerChars[CHOOSE i \in DOMAIN UpperChars : UpperChars[i] = c]
    ELSE IF c = "Ø" THEN "ø"
    ELSE IF c = "Φ" THEN "φ"
    ELSE c

\* str.lower()
RECURSIVE Lower(_)
Lower(s) == IF s = <<>> THEN <<>> ELSE <<LowerChar(Head(s))>> \o Lower(Tail(s))

RECURSIVE LStrip(_)
LStrip(s) == IF s # <<>> /\ IsSpace(Head(s)) THEN LStrip(Tail(s)) ELSE s

RECURSIVE RStrip(_)
RStrip(s) ==
    IF s # <<>> /\ IsSpace(s[Len(s)]) THEN RStrip(SubSeq(s, 1, Len(s) - 1)) ELSE s

Strip(s) == RStrip(LStrip(s))

\* s[p:] starts with t (p is a 1-based position)
StartsAt(s, p, t) ==
    /\ p + Len(t) - 1 <= Len(s)
    /\ \A i \in 1..Len(t) : s[p + i - 1] = t[i]

EndsWith(s, t) == Len(t) <= Len(s) /\ StartsAt(s, Len(s) - Len(t) + 1, t)

\* t in s
Contains(s, t) == \E p \in 1..(Len(s) + 1) : StartsAt(s, p, t)

\* s.replace(c, "")
RECURSIVE RemoveChar(_, _)
RemoveChar(s, c) ==
    IF s = <<>> THEN <<>>
    ELSE IF Head(s) = c THEN RemoveChar(Tail(s), c)
    ELSE <<Head(s)>> \o RemoveChar(Tail(s), c)

\* position just after the longest run of characters satisfying a class,
\* starting at p: the greedy match of  [class]*
RECURSIVE SkipSpaces(_, _)
SkipSpaces(s, p) == IF p <= Len(s) /\ IsSpace(s[p]) THEN SkipSpaces(s, p + 1) ELSE p

RECURSIVE SkipDigits(_, _)
SkipDigits(s, p) == IF p <= Len(s) /\ IsDigit(s[p]) THEN SkipDigits(s, p + 1) ELSE p

(***************************************************************************)
(* Exact decimal numbers: [n, d, e] stands for n / (d * 10^e), with        *)
(* d > 0, e >= 0, gcd(n, d) = 1, gcd(d, 10) = 1 and 10 not dividing n      *)
(* unless e = 0.  The form is unique, so = is numeric equality.            *)
(***************************************************************************)
Abs(x) == IF x < 0 THEN -x ELSE x

RECURSIVE Gcd(_, _)
Gcd(a, b) == IF b = 0 THEN Abs(a) ELSE Gcd(b, a % b)

RECURSIVE Pow10(_)
Pow10(k) == IF k = 0 THEN 1 ELSE 10 * Pow10(k - 1)

RECURSIVE Canon(_, _, _)
Canon(n, d, e) ==
    IF n = 0 THEN [n |-> 0, d |-> 1, e |-> 0]
    ELSE IF d < 0 THEN Canon(-n, -d, e)
    ELSE IF Gcd(n, d) > 1 THEN Canon(n \div Gcd(n, d), d \div Gcd(n, d), e)
    ELSE IF d % 2 = 0 THEN Canon(n * 5, d \div 2, e + 1)
    ELSE IF d % 5 = 0 THEN Canon(n * 2, d \div 5, e + 1)
    ELSE IF e > 0 /\ n % 10 = 0 THEN Canon(n \div 10, d, e - 1)
    ELSE IF e < 0 THEN Canon(n * 10, d, e + 1)
    ELSE [n |-> n, d |-> d, e |-> e]

Dec(n, e) == Canon(n, 1, e)          \* the decimal literal n * 10^-e
Int2Num(n) == Canon(n, 1, 0)

\* float("nan"), float("inf"), float("-inf"): the values with d = 0.  They
\* follow IEEE 754: nan absorbs every operation and compares false with
\* everything, an infinity keeps its sign under a positive factor.
NaN == [n |-> 0, d |-> 0, e |-> 0]
Inf(sign) == [n |-> sign, d |-> 0, e |-> 0]
IsFinite(a) == a.d # 0
IsNaN(a) == a.d = 0 /\ a.n = 0
Sign(n) == IF n > 0 THEN 1 ELSE IF n < 0 THEN -1 ELSE 0

NumMul(a, b) ==
    IF IsFinite(a) /\ IsFinite(b) THEN Canon(a.n * b.n, a.d * b.d, a.e + b.e)
    ELSE Inf(Sign(a.n) * Sign(b.n))
NumDivInt(a, k) ==
    IF IsFinite(a) THEN Canon(a.n, a.d * k, a.e) ELSE Inf(Sign(a.n) * Sign(k))
MaxE(a, b) == IF a.e >= b.e THEN a.e ELSE b.e
\* numerators of a and b over the common denominator a.d * b.d * 10^MaxE
Lift(a, b) == a.n * Pow10(MaxE(a, b) - a.e) * b.d
NumSub(a, b) ==
    IF IsFinite(a) /\ IsFinite(b) THEN Canon(Lift(a, b) - Lift(b, a), a.d * b.d, MaxE(a, b))
    ELSE IF IsNaN(a) \/ IsNaN(b) \/ (~IsFinite(a) /\ ~IsFinite(b) /\ a.n = b.n) THEN NaN
    ELSE IF ~IsFinite(a) THEN a
    ELSE Inf(-b.n)
\* the place of a value among the infinities
Side(a) == IF IsFinite(a) THEN 0 ELSE a.n
NumLt(a, b) ==
    IF IsFinite(a) /\ IsFinite(b) THEN Lift(a, b) < Lift(b, a)
    ELSE ~IsNaN(a) /\ ~IsNaN(b) /\ Side(a) < Side(b)
NumLe(a, b) ==
    IF IsFinite(a) /\ IsFinite(b) THEN Lift(a, b) <= Lift(b, a)
    ELSE ~IsNaN(a) /\ ~IsNaN(b) /\ (Side(a) < Side(b) \/ a = b)

(***************************************************************************)
(* Python / JSON values                                                    *)
(***************************************************************************)
Absent == [t |-> "absent"]           \* the key is not in the dict
Null == [t |-> "null"]               \* None
Bool(b) == [t |-> "bool", b |-> b]
Num(x) == [t |-> "num", x |-> x]     \* int or float
Str(s) == [t |-> "str", s |-> s]
List(xs) == [t |-> "list", items |-> xs]
Dict(kvs) == [t |-> "dict", items |-> kvs]   \* kvs: sequence of <<key, value>>
\* a formatted (f-string) text, kept as its parts; never empty
Msg(parts) == [t |-> "msg", parts |-> parts]

IsDict(v) == v.t = "dict"
IsStr(v) == v.t = "str"
IsNum(v) == v.t = "num"

\* bool(v)
Truthy(v) ==
    CASE v.t = "absent" -> FALSE
      [] v.t = "null" -> FALSE
      [] v.t = "bool" -> v.b
      [] v.t = "num" -> v.x.n # 0 \/ v.x.d = 0
      [] v.t = "str" -> v.s # <<>>
      [] v.t = "list" -> v.items # <<>>
      [] v.t = "dict" -> v.items # <<>>
      [] v.t = "msg" -> TRUE

\* a or b
Or(a, b) == IF Truthy(a) THEN a ELSE b

HasKey(d, k) == \E i \in DOMAIN d.items : d.items[i][1] = k

\* d.get(k): None when the key is missing
Get(d, k) ==
    IF HasKey(d, k)
    THEN d.items[CHOOSE i \in DOMAIN d.items : d.items[i][1] = k][2]
    ELSE Null

Keys(d) == [i \in DOMAIN d.items |-> d.items[i][1]]

\* d[k] = v: a present key keeps its position, a new key goes last
DictSet(d, k, v) ==
    IF HasKey(d, k)
    THEN Dict([i \in DOMAIN d.items |->
                 IF d.items[i][1] = k THEN <<k, v>> ELSE d.items[i]])
    ELSE Dict(Append(d.items, <<k, v>>))

(***************************************************************************)
(* Unit catalog (ifc_to_canonical.py): a Python dict literal is a sequence *)
(* of <<key, value>> pairs.                                                *)
(***************************************************************************)
TableHas(tbl, k) == \E i \in DOMAIN tbl : tbl[i][1] = k
\* tbl.get(k, dflt); a later duplicate key would win in a dict literal
TableGet(tbl, k, dflt) ==
    IF TableHas(tbl, k)
    THEN LET hits == {i \in DOMAIN tbl : tbl[i][1] = k}
         IN  tbl[CHOOSE i \in hits : \A j \in hits : j <= i][2]
    ELSE dflt

NAME_ALIASES ==
    << <<<<"l","e","n","g","t","h">>, "length">>,
       <<<<"w","i","d","t","h">>, "length">>,
       <<<<"h","e","i","g","h","t">>, "length">>,
       <<<<"d","e","p","t","h">>, "length">>,
       <<<<"t","h","i","c","k","n","e","s","s">>, "length">>,
       <<<<"d","i","a","m","e","t","e","r">>, "length">>,
       <<<<"d","i","a">>, "length">>,
       <<<<"r","a","d","i","u","s">>, "length">>,
       <<<<"n","e","t","a","r","e","a">>, "area">>,
       <<<<"g","r","o","s","s","a","r","e","a">>, "area">>,
       <<<<"a","r","e","a">>, "area">>,
       <<<<"n","e","t","s","i","d","e","a","r","e","a">>, "area">>,
       <<<<"c","r","o","s","s","s","e","c","t","i","o","n","a","r","e","a">>, "area">>,
       <<<<"n","e","t","v","o","l","u","m","e">>, "volume">>,
       <<<<"g","r","o","s","s","v","o","l","u","m","e">>, "volume">>,
       <<<<"v","o","l","u","m","e">>, "volume">>,
       <<<<"f","l","o","w">>, "vol_flow">>,
       <<<<"f","l","o","w","_","r","a","t","e">>, "vol_flow">>,
       <<<<"q">>, "vol_flow">>,
       <<<<"a","i","r","f","l","o","w">>, "vol_flow">>,
       <<<<"c","f","m">>, "vol_flow">>,
       <<<<"v","e","l","o","c","i","t","y">>, "velocity">>,
       <<<<"p","o","w","e","r">>, "power">>,
       <<<<"r","a","t","e","d","_","p","o","w","e","r">>, "power">>,
       <<<<"k","w">>, "power">>,
       <<<<"p","o","w","e","r","_","k","w">>, "power">>,
       <<<<"b","t","u","/","h">>, "power">>,
       <<<<"h","e","a","t","_","g","a","i","n">>, "power">>,
       <<<<"h","e","a","t","_","l","o","s","s">>, "power">>,
       <<<<"v","o","l","t","a","g","e">>, "voltage">>,
       <<<<"c","u","r","r","e","n","t">>, "current">>,
       <<<<"f","r","e","q","u","e","n","c","y">>, "frequency">>,
       <<<<"p","o","w","e","r","_","f","a","c","t","o","r">>, "unitless">>,
       <<<<"t","e","m","p","e","r","a","t","u","r","e">>, "temperature">>,
       <<<<"t","e","m","p">>, "temperature">>,
       <<<<"s","e","t","p","o","i","n","t">>, "temperature">>,
       <<<<"p","r","e","s","s","u","r","e">>, "pressure">>,
       <<<<"p","r","e","s","s">>, "pressure">>,
       <<<<"s","t","a","t","i","c","_","p","r","e","s","s","u","r","e">>, "pressure">>,
       <<<<"p","e","r","c","e","n","t">>, "percent">>,
       <<<<"p","e","r","c","e","n","t","a","g","e">>, "percent">>,
       <<<<"e","f","f","i","c","i","e","n","c","y">>, "percent">>,
       <<<<"a","n","g","l","e">>, "angle">> >>

UNIT_CANON ==
    << <<<<"m">>, <<"m">>>>,
       <<<<"m","e","t","e","r">>, <<"m">>>>,
       <<<<"m","e","t","r","e">>, <<"m">>>>,
       <<<<"m","m">>, <<"m","m">>>>,
       <<<<"c","m">>, <<"c","m">>>>,
       <<<<"i","n">>, <<"i","n">>>>,
       <<<<"\"">>, <<"i","n">>>>,
       <<<<"i","n","c","h">>, <<"i","n">>>>,
       <<<<"f","t">>, <<"f","t">>>>,
       <<<<"'">>, <<"f","t">>>>,
       <<<<"m","2">>, <<"m","²">>>>,
       <<<<"m","^","2">>, <<"m","²">>>>,
       <<<<"m","²">>, <<"m","²">>>>,
       <<<<"m","m","2">>, <<"m","m","²">>>>,
       <<<<"c","m","2">>, <<"c","m","²">>>>,
       <<<<"f","t","2">>, <<"f","t","²">>>>,
       <<<<"s","q","f","t">>, <<"f","t","²">>>>,
       <<<<"s","f">>, <<"f","t","²">>>>,
       <<<<"m","3">>, <<"m","³">>>>,
       <<<<"m","^","3">>, <<"m","³">>>>,
       <<<<"m","³">>, <<"m","³">>>>,
       <<<<"l">>, <<"L">>>>,
       <<<<"l","i","t","e","r">>, <<"L">>>>,
       <<<<"l","i","t","r","e">>, <<"L">>>>,
       <<<<"m","l">>, <<"m","L">>>>,
       <<<<"f","t","3">>, <<"f","t","³">>>>,
       <<<<"c","f">>, <<"f","t","³">>>>,
       <<<<"c","u","f","t">>, <<"f","t","³">>>>,
       <<<<"g","a","l">>, <<"g","a","l">>>>,
       <<<<"g","a","l","l","o","n">>, <<"g","a","l">>>>,
       <<<<"w">>, <<"W">>>>,
       <<<<"k","w">>, <<"k","W">>>>,
       <<<<"h","p">>, <<"h","p">>>>,
       <<<<"b","t","u","/","h">>, <<"B","T","U","/","h">>>>,
       <<<<"b","t","u","h">>, <<"B","T","U","/","h">>>>,
       <<<<"p","a">>, <<"P","a">>>>,
       <<<<"k","p","a">>, <<"k","P","a">>>>,
       <<<<"m","p","a">>, <<"M","P","a">>>>,
       <<<<"b","a","r">>, <<"b","a","r">>>>,
       <<<<"p","s","i">>, <<"p","s","i">>>>,
       <<<<"c">>, <<"°","C">>>>,
       <<<<"°","c">>, <<"°","C">>>>,
       <<<<"f">>, <<"°","F">>>>,
       <<<<"°","f">>, <<"°","F">>>>,
       <<<<"k">>, <<"K">>>>,
       <<<<"l","/","s">>, <<"L","/","s">>>>,
       <<<<"l","p","s">>, <<"L","/","s">>>>,
       <<<<"l","/","s","e","c">>, <<"L","/","s">>>>,
       <<<<"l","/","m","i","n">>, <<"L","/","m","i","n">>>>,
       <<<<"l","p","m">>, <<"L","/","m","i","n">>>>,
       <<<<"m","3","/","h">>, <<"m","³","/","h">>>>,
       <<<<"m","3","/","s">>, <<"m","³","/","s">>>>,
       <<<<"m","³","/","h">>, <<"m","³","/","h">>>>,
       <<<<"m","³","/","s">>, <<"m","³","/","s">>>>,
       <<<<"c","f","m">>, <<"C","F","M">>>>,
       <<<<"g","p","m">>, <<"G","P","M">>>>,
       <<<<"m","/","s">>, <<"m","/","s">>>>,
       <<<<"r","p","m">>, <<"R","P","M">>>>,
       <<<<"h","z">>, <<"H","z">>>>,
       <<<<"%">>, <<"%">>>> >>


(***************************************************************************)
(* Deterministic unit normalization (ifc_to_canonical.py)                  *)
(***************************************************************************)
RECURSIVE DigitsToInt(_)
DigitsToInt(s) ==
    IF s = <<>> THEN 0 ELSE 10 * DigitsToInt(SubSeq(s, 1, Len(s) - 1)) + DigitVal(s[Len(s)])

\* float(s) for a decimal literal  [sign] digits [. digits]  (also "5." and
\* ".5") and for  [sign] nan | inf | infinity  in any letter case; None for
\* any other text.  Exponents and digit separators are outside the value
\* domain of the model.
NonFiniteWord(w, negative) ==
    IF w = <<"n","a","n">> THEN Num(NaN)
    ELSE IF w \in {<<"i","n","f">>, <<"i","n","f","i","n","i","t","y">>}
    THEN Num(Inf(IF negative THEN -1 ELSE 1))
    ELSE Null

ParseFloat(s) ==
    LET signed == s # <<>> /\ s[1] \in {"+", "-"}
        p0 == IF signed THEN 2 ELSE 1
        p1 == SkipDigits(s, p0)
        dot == p1 <= Len(s) /\ s[p1] = "."
        p2 == IF dot THEN SkipDigits(s, p1 + 1) ELSE p1
        ip == SubSeq(s, p0, p1 - 1)
        fp == IF dot THEN SubSeq(s, p1 + 1, p2 - 1) ELSE <<>>
        mag == DigitsToInt(ip \o fp)
    IN  IF p2 = Len(s) + 1 /\ Len(ip) + Len(fp) > 0
        THEN Num(Canon(IF signed /\ s[1] = "-" THEN -mag ELSE mag, 1, Len(fp)))
        ELSE NonFiniteWord(Lower(SubSeq(s, p0, Len(s))), signed /\ s[1] = "-")

\* str(x) of a value that is not None, a number or a str never parses as a
\* float: "[...]", "{...}", "True" are not numeric literals
_to_float(x) ==
    CASE x.t = "null" -> Null
      [] x.t = "num" -> x
      [] x.t = "bool" -> Num(Int2Num(IF x.b THEN 1 ELSE 0))
      [] x.t = "str" -> ParseFloat(RemoveChar(Strip(x.s), ","))
      [] OTHER -> Null

\* _DIAM_RE = (?i)[øØφphi]*\s*(?P<num>\d+(?:\.\d+)?)\s*(?P<unit>mm|cm|in|\"|')
DiamPrefixChars == {"ø", "Ø", "φ", "Φ", "p", "P", "h", "H", "i", "I"}
DiamUnits == << <<"m","m">>, <<"c","m">>, <<"i","n">>, <<"\"">>, <<"'">> >>

RECURSIVE SkipDiamPrefix(_, _)
SkipDiamPrefix(s, p) ==
    IF p <= Len(s) /\ s[p] \in DiamPrefixChars THEN SkipDiamPrefix(s, p + 1) ELSE p

\* end of  \d+(?:\.\d+)?  started at q (q itself when no digit is there)
DecimalEnd(s, q) ==
    LET q1 == SkipDigits(s, q)
    IN  IF q1 > q /\ q1 + 1 <= Len(s) /\ s[q1] = "." /\ IsDigit(s[q1 + 1])
        THEN SkipDigits(s, q1 + 1)
        ELSE q1

\* the match of _DIAM_RE that starts at p, or Null.  Every quantifier is
\* followed by a disjoint character class, so the greedy path is the only one.
DiamMatchAt(s, p) ==
    LET q2 == SkipSpaces(s, SkipDiamPrefix(s, p))
        q4 == DecimalEnd(s, q2)
        q5 == SkipSpaces(s, q4)
        alts == {i \in DOMAIN DiamUnits : StartsAt(Lower(s), q5, DiamUnits[i])}
    IN  IF q4 > q2 /\ alts # {}
        THEN [num |-> SubSeq(s, q2, q4 - 1),
              unit |-> LET i == CHOOSE i \in alts : \A j \in alts : i <= j
                       IN  SubSeq(s, q5, q5 + Len(DiamUnits[i]) - 1)]
        ELSE Null

\* _DIAM_RE.search(s): the match at the leftmost start
RECURSIVE DiamSearchFrom(_, _)
DiamSearchFrom(s, p) ==
    IF p > Len(s) THEN Null
    ELSE IF DiamMatchAt(s, p) # Null THEN DiamMatchAt(s, p)
    ELSE DiamSearchFrom(s, p + 1)

DiamSearch(s) == DiamSearchFrom(s, 1)

\* _NUM_UNIT_RE: num = [-+]?\d{1,3}(?:,\d{3})*(?:\.\d+)? | [-+]?\d+(?:\.\d+)?
\* then \s* and an optional unit [a-zA-Z°/%³²^/]+
IsUnitChar(c) == IsUpper(c) \/ IsLowerAz(c) \/ c \in {"°", "/", "%", "³", "²", "^"}

RECURSIVE SkipUnitChars(_, _)
SkipUnitChars(s, p) ==
    IF p <= Len(s) /\ IsUnitChar(s[p]) THEN SkipUnitChars(s, p + 1) ELSE p

\* greedy (?:,\d{3})*
RECURSIVE SkipThousands(_, _)
SkipThousands(s, p) ==
    IF /\ p + 3 <= Len(s)
       /\ s[p] = ","
       /\ IsDigit(s[p + 1]) /\ IsDigit(s[p + 2]) /\ IsDigit(s[p + 3])
    THEN SkipThousands(s, p + 4)
    ELSE p

\* greedy \d{1,3} from p
UpTo3Digits(s, p) ==
    LET q == SkipDigits(s, p) IN IF q > p + 3 THEN p + 3 ELSE q

\* the match of _NUM_UNIT_RE that starts at p, or Null.  What follows the
\* num group can match the empty string, so the first alternative, taken
\* greedily, is the match whenever a digit is there: the second alternative
\* is never reached.
NumUnitMatchAt(s, p) ==
    LET signed == p <= Len(s) /\ s[p] \in {"+", "-"}
        d0 == IF signed THEN p + 1 ELSE p
        d1 == UpTo3Digits(s, d0)
        d2 == SkipThousands(s, d1)
        d3 == IF d2 + 1 <= Len(s) /\ s[d2] = "." /\ IsDigit(s[d2 + 1])
              THEN SkipDigits(s, d2 + 1) ELSE d2
        u0 == SkipSpaces(s, d3)
        u1 == SkipUnitChars(s, u0)
    IN  IF d1 > d0
        THEN [num |-> SubSeq(s, p, d3 - 1),
              unit |-> IF u1 > u0 THEN SubSeq(s, u0, u1 - 1) ELSE <<>>]
        ELSE Null

RECURSIVE NumUnitSearchFrom(_, _)
NumUnitSearchFrom(s, p) ==
    IF p > Len(s) THEN Null
    ELSE IF NumUnitMatchAt(s, p) # Null THEN NumUnitMatchAt(s, p)
    ELSE NumUnitSearchFrom(s, p + 1)

\* _NUM_UNIT_RE.search(s): the match at the leftmost start
NumUnitSearch(s) == NumUnitSearchFrom(s, 1)

\* UNIT_CANON.get(u.lower(), u) on a str
CanonUnit(u) == Str(TableGet(UNIT_CANON, Lower(u), u))

\* returns <<v, u>>; s is a Str (the caller tests isinstance(value, str))
\* dm and nm are the matches of _DIAM_RE and _NUM_UNIT_RE in s
ParsedFrom(s, dm, nm) ==
    IF dm # Null THEN <<_to_float(Str(dm.num)), CanonUnit(dm.unit)>>
    ELSE IF nm = Null THEN <<_to_float(Str(s)), Null>>
    ELSE <<_to_float(Str(nm.num)),
           IF nm.unit # <<>> THEN CanonUnit(nm.unit) ELSE Null>>

ParseStripped(s) == ParsedFrom(s, DiamSearch(s), NumUnitSearch(s))

_parse_num_unit_from_string(v0) == ParseStripped(Strip(v0.s))

\* name.endswith(suffix) or (hint in name), for the four unit hints
HasUnitHint(n, suffix, hint) == EndsWith(n, suffix) \/ (hint # <<>> /\ Contains(n, hint))

_canon_kind(name) ==
    LET n == Lower(Strip(name))
    IN  IF TableHas(NAME_ALIASES, n) THEN TableGet(NAME_ALIASES, n, "unknown")
        ELSE IF HasUnitHint(n, <<"_","m","m">>, <<"(","m","m",")">>) THEN "length"
        ELSE IF HasUnitHint(n, <<"_","m">>, <<"(","m",")">>) THEN "length"
        ELSE IF HasUnitHint(n, <<"_","c","m">>, <<>>) THEN "length"
        ELSE IF HasUnitHint(n, <<"_","f","t">>, <<"(","f","t",")">>) THEN "length"
        ELSE IF Contains(n, <<"a","r","e","a">>) THEN "area"
        ELSE IF Contains(n, <<"v","o","l","u","m","e">>) THEN "volume"
        ELSE IF Contains(n, <<"p","r","e","s","s","u","r","e">>) THEN "pressure"
        ELSE IF Contains(n, <<"t","e","m","p","e","r","a","t","u","r","e">>) \/ Contains(n, <<"t","e","m","p">>)
             THEN "temperature"
        ELSE IF Contains(n, <<"f","l","o","w">>) \/ Contains(n, <<"c","f","m">>) THEN "vol_flow"
        ELSE IF Contains(n, <<"v","e","l","o","c","i","t","y">>) THEN "velocity"
        ELSE IF Contains(n, <<"p","o","w","e","r">>) \/ Contains(n, <<"b","t","u">>) THEN "power"
        ELSE IF Contains(n, <<"v","o","l","t","a","g","e">>) THEN "voltage"
        ELSE IF Contains(n, <<"c","u","r","r","e","n","t">>) THEN "current"
        ELSE IF Contains(n, <<"f","r","e","q","u","e","n","c","y">>) THEN "frequency"
        ELSE IF Contains(n, <<"p","e","r","c","e","n","t">>) \/ EndsWith(n, <<"_","p","c","t">>)
             THEN "percent"
        ELSE "unknown"

\* the unit symbols normalize_unit compares with and returns
U_m == Str(<<"m">>)
U_mm == Str(<<"m","m">>)
U_cm == Str(<<"c","m">>)
U_in == Str(<<"i","n">>)
U_ft == Str(<<"f","t">>)
U_m2 == Str(<<"m","²">>)
U_m3 == Str(<<"m","³">>)
U_Lps == Str(<<"L","/","s">>)
U_degC == Str(<<"°","C">>)
U_degF == Str(<<"°","F">>)
U_K == Str(<<"K">>)
U_Pa == Str(<<"P","a">>)
U_kW == Str(<<"k","W">>)
U_pct == Str(<<"%">>)

UnitIn(u, names) == \E i \in DOMAIN names : u = Str(names[i])

\* one result of normalize_unit: (value_norm, unit_norm, reason)
NormResult(v, u, reason) == [v |-> v, u |-> u, reason |-> reason]

\* v * (n * 10^-e), v / k, on the Num v
Times(v, n, e) == Num(NumMul(v.x, Dec(n, e)))
Over(v, k) == Num(NumDivInt(v.x, k))

\* unit_overrides["defaults"].get(name.strip().lower()); None without the table
DefaultUnit(name, unit_overrides) ==
    IF Truthy(unit_overrides) /\ HasKey(unit_overrides, "defaults")
    THEN Get(Get(unit_overrides, "defaults"), Lower(Strip(name)))
    ELSE Null

\* variant: the unit argument comes before the unit found in the text
ChosenUnit_ArgumentFirst(name, value, unit, unit_overrides) ==
    IF IsStr(value)
    THEN Or(unit, Or(_parse_num_unit_from_string(value)[2], DefaultUnit(name, unit_overrides)))
    ELSE Or(unit, DefaultUnit(name, unit_overrides))

\* the unit before canonicalization: parsed_u or unit or default_u
ChosenUnit(name, value, unit, unit_overrides) ==
    IF IsStr(value)
    THEN Or(_parse_num_unit_from_string(value)[2], Or(unit, DefaultUnit(name, unit_overrides)))
    ELSE Or(unit, DefaultUnit(name, unit_overrides))

\* (u or "").lower() raises AttributeError on a truthy unit that is no str
TruthyNonStr(u) == Truthy(u) /\ ~IsStr(u)
NormalizeRaises(name, value, unit, unit_overrides) ==
    TruthyNonStr(ChosenUnit(name, value, unit, unit_overrides))

\* variant: a converted length keeps the unit it came in
ConvertLength_SourceUnit(v, u) ==
    IF ~Truthy(u) \/ u = U_m THEN NormResult(v, U_m, IF Truthy(u) THEN "ok" ELSE "assume_m")
    ELSE IF u = U_mm THEN NormResult(Over(v, 1000), u, "mm_to_m")
    ELSE IF u = U_cm THEN NormResult(Over(v, 100), u, "cm_to_m")
    ELSE IF u = U_in THEN NormResult(Times(v, 254, 4), u, "in_to_m")
    ELSE IF u = U_ft THEN NormResult(Times(v, 3048, 4), u, "ft_to_m")
    ELSE NormResult(v, u, "length_noop")

ConvertLength(v, u) ==
    IF ~Truthy(u) \/ u = U_m THEN NormResult(v, U_m, IF Truthy(u) THEN "ok" ELSE "assume_m")
    ELSE IF u = U_mm THEN NormResult(Over(v, 1000), U_m, "mm_to_m")
    ELSE IF u = U_cm THEN NormResult(Over(v, 100), U_m, "cm_to_m")
    ELSE IF u = U_in THEN NormResult(Times(v, 254, 4), U_m, "in_to_m")
    ELSE IF u = U_ft THEN NormResult(Times(v, 3048, 4), U_m, "ft_to_m")
    ELSE NormResult(v, u, "length_noop")

ConvertArea(v, u) ==
    IF ~Truthy(u) \/ UnitIn(u, << <<"m","²">>, <<"m","2">> >>)
    THEN NormResult(v, U_m2, IF Truthy(u) THEN "ok" ELSE "assume_m2")
    ELSE IF UnitIn(u, << <<"m","m","²">>, <<"m","m","2">> >>)
    THEN NormResult(Over(Over(v, 1000), 1000), U_m2, "mm2_to_m2")
    ELSE IF UnitIn(u, << <<"c","m","²">>, <<"c","m","2">> >>)
    THEN NormResult(Over(v, 10000), U_m2, "cm2_to_m2")
    ELSE IF UnitIn(u, << <<"f","t","²">>, <<"f","t","2">>, <<"f","t","^","2">>,
                         <<"s","q","f","t">>, <<"s","f">> >>)
    THEN NormResult(Times(v, 9290304, 8), U_m2, "ft2_to_m2")
    ELSE NormResult(v, u, "area_noop")

ConvertVolume(v, u) ==
    IF ~Truthy(u) \/ UnitIn(u, << <<"m","³">>, <<"m","3">> >>)
    THEN NormResult(v, U_m3, IF Truthy(u) THEN "ok" ELSE "assume_m3")
    ELSE IF UnitIn(u, << <<"L">>, <<"l">> >>) THEN NormResult(Over(v, 1000), U_m3, "L_to_m3")
    ELSE IF u = Str(<<"m","L">>) THEN NormResult(Over(Over(v, 1000), 1000), U_m3, "mL_to_m3")
    ELSE IF UnitIn(u, << <<"f","t","³">>, <<"f","t","3">> >>)
    THEN NormResult(Times(v, 283168466, 10), U_m3, "ft3_to_m3")
    ELSE IF UnitIn(u, << <<"g","a","l">>, <<"g","a","l","l","o","n">> >>)
    THEN NormResult(Times(v, 378541178, 11), U_m3, "gal_to_m3")
    ELSE NormResult(v, u, "volume_noop")

ConvertFlow(v, u) ==
    IF ~Truthy(u) THEN NormResult(v, U_Lps, "assume_Lps")
    ELSE IF u = U_Lps THEN NormResult(v, U_Lps, "ok")
    ELSE IF UnitIn(u, << <<"L","/","m","i","n">>, <<"l","p","m">> >>)
    THEN NormResult(Over(v, 60), U_Lps, "Lpm_to_Lps")
    ELSE IF UnitIn(u, << <<"m","³","/","h">>, <<"m","3","/","h">> >>)
    THEN NormResult(Over(Times(v, 1000, 0), 3600), U_Lps, "m3h_to_Lps")
    ELSE IF UnitIn(u, << <<"m","³","/","s">>, <<"m","3","/","s">> >>)
    THEN NormResult(Times(v, 1000, 0), U_Lps, "m3s_to_Lps")
    ELSE IF u = Str(<<"C","F","M">>) THEN NormResult(Times(v, 47194745, 8), U_Lps, "cfm_to_Lps")
    ELSE IF u = Str(<<"G","P","M">>) THEN NormResult(Times(v, 630902, 7), U_Lps, "gpm_to_Lps")
    ELSE NormResult(v, u, "flow_noop")

\* variant: Fahrenheit is scaled without the offset
ConvertTemperature_Linear(v, u) ==
    IF ~Truthy(u) \/ UnitIn(u, << <<"°","C">>, <<"C">>, <<"c">> >>)
    THEN NormResult(v, U_degC, IF Truthy(u) THEN "ok" ELSE "assume_C")
    ELSE IF UnitIn(u, << <<"°","F">>, <<"F">>, <<"f">> >>)
    THEN NormResult(Over(Times(v, 5, 0), 9), U_degC, "F_to_C")
    ELSE IF u = U_K THEN NormResult(Num(NumSub(v.x, Dec(27315, 2))), U_degC, "K_to_C")
    ELSE NormResult(v, u, "temp_noop")

ConvertTemperature(v, u) ==
    IF ~Truthy(u) \/ UnitIn(u, << <<"°","C">>, <<"C">>, <<"c">> >>)
    THEN NormResult(v, U_degC, IF Truthy(u) THEN "ok" ELSE "assume_C")
    ELSE IF UnitIn(u, << <<"°","F">>, <<"F">>, <<"f">> >>)
    THEN NormResult(Over(Times(Num(NumSub(v.x, Int2Num(32))), 5, 0), 9), U_degC, "F_to_C")
    ELSE IF u = U_K THEN NormResult(Num(NumSub(v.x, Dec(27315, 2))), U_degC, "K_to_C")
    ELSE NormResult(v, u, "temp_noop")

ConvertPressure(v, u) ==
    IF ~Truthy(u) \/ u = U_Pa THEN NormResult(v, U_Pa, IF Truthy(u) THEN "ok" ELSE "assume_Pa")
    ELSE IF u = Str(<<"k","P","a">>) THEN NormResult(Times(v, 1000, 0), U_Pa, "kPa_to_Pa")
    ELSE IF u = Str(<<"M","P","a">>) THEN NormResult(Times(v, 1000000, 0), U_Pa, "MPa_to_Pa")
    ELSE IF u = Str(<<"b","a","r">>) THEN NormResult(Times(v, 100000, 0), U_Pa, "bar_to_Pa")
    ELSE IF u = Str(<<"p","s","i">>) THEN NormResult(Times(v, 689475729, 5), U_Pa, "psi_to_Pa")
    ELSE NormResult(v, u, "press_noop")

ConvertPower(v, u) ==
    IF ~Truthy(u) \/ u = U_kW THEN NormResult(v, U_kW, IF Truthy(u) THEN "ok" ELSE "assume_kW")
    ELSE IF u = Str(<<"W">>) THEN NormResult(Over(v, 1000), U_kW, "W_to_kW")
    ELSE IF u = Str(<<"h","p">>) THEN NormResult(Times(v, 745699872, 9), U_kW, "hp_to_kW")
    ELSE IF u = Str(<<"B","T","U","/","h">>) THEN NormResult(Times(v, 29307107, 11), U_kW, "BTUh_to_kW")
    ELSE NormResult(v, u, "power_noop")

\* "X" if (not u or str(u).lower() == "x") else u
DefaultSymbol(u, sym) ==
    IF ~Truthy(u) \/ Lower(u.s) = Lower(sym) THEN Str(sym) ELSE u

\* variant: a value in [0, 1] is read as a fraction whatever its unit
ConvertPercent_AnyUnit(v, u) ==
    IF NumLe(Int2Num(0), v.x) /\ NumLe(v.x, Int2Num(1))
    THEN NormResult(Times(v, 100, 0), U_pct, "fraction_to_percent")
    ELSE NormResult(v, IF ~Truthy(u) THEN U_pct ELSE u, "ok")

ConvertPercent(v, u) ==
    IF /\ NumLe(Int2Num(0), v.x) /\ NumLe(v.x, Int2Num(1))
       /\ (u = Null \/ u = Str(<<>>))
    THEN NormResult(Times(v, 100, 0), U_pct, "fraction_to_percent")
    ELSE NormResult(v, IF ~Truthy(u) THEN U_pct ELSE u, "ok")

\* the branch of normalize_unit for the kind, on the parsed value v and the
\* canonical unit u
ConvertKind(kind, v, u) ==
        IF v = Null THEN NormResult(Null, u, "no_value")
        ELSE CASE kind = "length" -> ConvertLength(v, u)
               [] kind = "area" -> ConvertArea(v, u)
               [] kind = "volume" -> ConvertVolume(v, u)
               [] kind = "vol_flow" -> ConvertFlow(v, u)
               [] kind = "temperature" -> ConvertTemperature(v, u)
               [] kind = "pressure" -> ConvertPressure(v, u)
               [] kind = "power" -> ConvertPower(v, u)
               [] kind = "voltage" -> NormResult(v, DefaultSymbol(u, <<"V">>), "ok")
               [] kind = "current" -> NormResult(v, DefaultSymbol(u, <<"A">>), "ok")
               [] kind = "frequency" -> NormResult(v, DefaultSymbol(u, <<"H","z">>), "ok")
               [] kind = "percent" -> ConvertPercent(v, u)
               [] kind = "angle" ->
                    NormResult(v, IF ~Truthy(u) THEN Str(<<"d","e","g">>) ELSE u, "ok")
               [] OTHER -> NormResult(v, u, "noop")

\* UNIT_CANON.get(str(u).lower(), u) if u else u
CanonOrKeep(u) == IF Truthy(u) THEN CanonUnit(u.s) ELSE u

\* normalize_unit, for arguments on which it does not raise
normalize_unit(name, value, unit, unit_overrides) ==
    ConvertKind(_canon_kind(name),
                IF IsStr(value) THEN _parse_num_unit_from_string(value)[1] ELSE _to_float(value),
                CanonOrKeep(ChosenUnit(name, value, unit, unit_overrides)))

(***************************************************************************)
(* Validation as the pipeline runs it (ifc_to_canonical.py)                *)
(***************************************************************************)
\* what "for k in c" / "x in c" see of a container
Elements(c) ==
    CASE c.t = "list" -> c.items
      [] c.t = "dict" -> [i \in DOMAIN c.items |-> Str(c.items[i][1])]
      [] c.t = "str" -> [i \in DOMAIN c.s |-> Str(<<c.s[i]>>)]
      [] OTHER -> <<>>

IsIterable(c) == c.t \in {"list", "dict", "str"}
IsHashable(v) == v.t \notin {"list", "dict"}

\* validate_required: the required names that are not keys of props_flat
\* or whose value is None, "", [] or {}
ValueIsEmpty(v) == v = Null \/ v = Str(<<>>) \/ v = List(<<>>) \/ v = Dict(<<>>)
IsMissing(props_flat, k) ==
    \/ ~(IsStr(k) /\ HasKey(props_flat, k.s))
    \/ ValueIsEmpty(Get(props_flat, k.s))

validate_required(props_flat, required) ==
    LET Missing(k) == IsMissing(props_flat, k)
    IN  SelectSeq(Elements(Or(required, List(<<>>))), Missing)

\* "for k in required" on a truthy non-iterable, "k not in props_flat" on an
\* unhashable k
ValidateRequiredRaises(required) ==
    /\ Truthy(required)
    /\ \/ ~IsIterable(required)
       \/ \E i \in DOMAIN Elements(required) : ~IsHashable(Elements(required)[i])

\* a number for "<": int, float or bool
IsComparable(v) == v.t \in {"num", "bool"}
AsNum(v) == IF v.t = "bool" THEN Int2Num(IF v.b THEN 1 ELSE 0) ELSE v.x

\* the entry of the range table validate_ranges reads, None when it returns early
RangeEntry(prop_name, value_norm, ranges) ==
    IF value_norm = Null \/ ~Truthy(ranges) THEN Null ELSE Get(ranges, prop_name)

ValidateRangesRaises(prop_name, value_norm, ranges) ==
    LET r == RangeEntry(prop_name, value_norm, ranges)
    IN  /\ Truthy(r)
        /\ \/ ~IsDict(r)
           \/ Get(r, "min") # Null /\ ~IsComparable(Get(r, "min"))
           \/ /\ Get(r, "max") # Null /\ ~IsComparable(Get(r, "max"))
              \* "value_norm < mn" returned before "value_norm > mx" is evaluated
              /\ ~(Get(r, "min") # Null /\ NumLt(value_norm.x, AsNum(Get(r, "min"))))

\* variant: the bounds themselves are out of range
validate_ranges_Inclusive(prop_name, value_norm, ranges) ==
    LET r == RangeEntry(prop_name, value_norm, ranges)
        mn == Get(r, "min")
        mx == Get(r, "max")
    IN  IF ~Truthy(r) THEN Null
        ELSE IF mn # Null /\ NumLe(value_norm.x, AsNum(mn))
             THEN Msg(<<"value", value_norm, "< min", mn>>)
        ELSE IF mx # Null /\ NumLe(AsNum(mx), value_norm.x)
             THEN Msg(<<"value", value_norm, "> max", mx>>)
        ELSE Null

\* validate_ranges: the message, or None
validate_ranges(prop_name, value_norm, ranges) ==
    LET r == RangeEntry(prop_name, value_norm, ranges)
        mn == Get(r, "min")
        mx == Get(r, "max")
    IN  IF ~Truthy(r) THEN Null
        ELSE IF mn # Null /\ NumLt(value_norm.x, AsNum(mn))
             THEN Msg(<<"value", value_norm, "< min", mn>>)
        ELSE IF mx # Null /\ NumLt(AsNum(mx), value_norm.x)
             THEN Msg(<<"value", value_norm, "> max", mx>>)
        ELSE Null

\* [n.get("class") for n in neighbors or []]
NeighborClasses(neighbors) ==
    LET ns == Elements(Or(neighbors, List(<<>>)))
    IN  [i \in DOMAIN ns |-> Get(ns[i], "class")]

\* c in expect
InContainer(c, expect) == \E i \in DOMAIN Elements(expect) : Elements(expect)[i] = c

\* the expected-neighbor entry validate_neighbors reads, None when it returns early
ExpectedNeighbors(canonical_class, neighbor_rules) ==
    IF ~Truthy(canonical_class) \/ ~Truthy(neighbor_rules) THEN Null
    ELSE IF IsStr(canonical_class) THEN Get(neighbor_rules, canonical_class.s) ELSE Null

\* "c in expect" on an expect that is no container
ValidateNeighborsRaises(canonical_class, neighbors, neighbor_rules) ==
    LET expect == ExpectedNeighbors(canonical_class, neighbor_rules)
    IN  /\ Truthy(expect)
        /\ NeighborClasses(neighbors) # <<>>
        /\ ~IsIterable(expect)

\* validate_neighbors: the message, or None.  any() of no classes is False,
\* so an entity with no neighbors gets the message.
validate_neighbors(canonical_class, neighbors, neighbor_rules) ==
    LET expect == ExpectedNeighbors(canonical_class, neighbor_rules)
        classes == NeighborClasses(neighbors)
    IN  IF ~Truthy(expect) THEN Null
        ELSE IF ~(\E i \in DOMAIN classes : InContainer(classes[i], expect))
             THEN Msg(<<"expected any of", expect, "got", classes>>)
        ELSE Null

(***************************************************************************)
(* llm_runner.py: heuristic (mock) classifier and the delegated calls      *)
(***************************************************************************)
\* _norm: (s or "").strip().lower(), as characters
_norm(s) == Lower(Strip(Or(s, Str(<<>>)).s))

_hit(name, keywords) ==
    /\ Truthy(keywords)
    /\ \E i \in DOMAIN Elements(keywords) :
         Contains(_norm(name), _norm(Elements(keywords)[i]))

\* the first label of labs whose keywords hit the name, else dflt
\* (for lab in labs: if _hit(...): canonical = lab; break)
FirstHit(name, kw, labs, dflt) ==
    LET hits == {i \in DOMAIN labs : _hit(name, Get(kw, labs[i]))}
    IN  IF hits = {} THEN dflt
        ELSE Str(labs[CHOOSE i \in hits : \A j \in hits : i <= j])

\* re.match(r"Ifc([A-Za-z0-9_]+)", ifc): group 1, or None
IsWordChar(c) == IsUpper(c) \/ IsLowerAz(c) \/ IsDigit(c) \/ c = "_"
RECURSIVE SkipWordChars(_, _)
SkipWordChars(s, p) ==
    IF p <= Len(s) /\ IsWordChar(s[p]) THEN SkipWordChars(s, p + 1) ELSE p
IfcGuess(ifc) ==
    IF StartsAt(ifc, 1, <<"I","f","c">>) /\ SkipWordChars(ifc, 4) > 4
    THEN Str(SubSeq(ifc, 4, SkipWordChars(ifc, 4) - 1))
    ELSE Null

\* the class-specific overrides, applied to the base-map result
ClassOverride(ifc, name, ptype, kw, canonical) ==
    CASE ifc = <<"I","f","c","W","a","l","l">> ->
           IF _hit(name, Get(kw, <<"E","x","t","e","r","n","a","l"," ","w","a","l","l","s"," ","(","f","a","ç","a","d","e",")">>)) THEN Str(<<"E","x","t","e","r","n","a","l"," ","w","a","l","l","s"," ","(","f","a","ç","a","d","e",")">>)
           ELSE IF _hit(name, Get(kw, <<"I","n","t","e","r","n","a","l"," ","w","a","l","l","s">>)) THEN Str(<<"I","n","t","e","r","n","a","l"," ","w","a","l","l","s">>)
           ELSE canonical
      [] ifc = <<"I","f","c","S","l","a","b">> ->
           IF ptype = <<"b","a","s","e","s","l","a","b">> \/ _hit(name, Get(kw, <<"F","o","u","n","d","a","t","i","o","n","_","S","l","a","b">>)) THEN Str(<<"F","o","u","n","d","a","t","i","o","n","_","S","l","a","b">>)
           ELSE IF ptype = <<"f","l","o","o","r">> \/ _hit(name, Get(kw, <<"F","l","o","o","r","s">>)) THEN Str(<<"F","l","o","o","r","s">>)
           ELSE IF ptype = <<"r","o","o","f">> \/ _hit(name, Get(kw, <<"R","o","o","f">>)) THEN Str(<<"R","o","o","f">>)
           ELSE Or(canonical, Str(<<"S","l","a","b","s">>))
      [] ifc = <<"I","f","c","C","o","v","e","r","i","n","g">> ->
           IF ptype = <<"c","e","i","l","i","n","g">> THEN Str(<<"C","e","i","l","i","n","g","s">>)
           ELSE IF ptype = <<"f","l","o","o","r","i","n","g">> THEN Str(<<"F","l","o","o","r","s">>)
           ELSE canonical
      [] ifc = <<"I","f","c","C","o","l","u","m","n">> ->
           IF _hit(name, Get(kw, <<"C","o","l","u","m","n"," ","(","S","t","e","e","l",")">>)) THEN Str(<<"C","o","l","u","m","n"," ","(","S","t","e","e","l",")">>)
           ELSE Str(<<"C","o","l","u","m","n","s"," ","(","C","o","n","c","r","e","t","e",")">>)
      [] ifc = <<"I","f","c","B","e","a","m">> ->
           IF _hit(name, Get(kw, <<"B","e","a","m"," ","(","S","t","e","e","l",")">>)) THEN Str(<<"B","e","a","m"," ","(","S","t","e","e","l",")">>)
           ELSE Str(<<"B","e","a","m"," ","(","C","o","n","c","r","e","t","e",")">>)
      [] ifc = <<"I","f","c","D","u","c","t","S","e","g","m","e","n","t">> -> Str(<<"F","l","e","x","i","b","l","e"," ","d","u","c","t">>)
      [] ifc = <<"I","f","c","F","i","r","e","S","u","p","p","r","e","s","s","i","o","n","T","e","r","m","i","n","a","l">> ->
           FirstHit(name, kw, << <<"S","p","r","i","n","k","l","e","r">>, <<"E","x","t","i","n","g","u","i","s","h","e","r","s">>, <<"H","o","s","e"," ","r","e","e","l">>, <<"H","y","d","r","a","n","t">> >>, canonical)
      [] ifc = <<"I","f","c","F","l","o","w","T","e","r","m","i","n","a","l">> ->
           FirstHit(name, kw, << <<"S","i","n","k">>, <<"H","o","s","e"," ","r","e","e","l">>, <<"H","y","d","r","a","n","t">> >>, canonical)
      [] ifc = <<"I","f","c","L","a","m","p">> ->
           IF _hit(name, Get(kw, <<"E","m","e","r","g","e","n","c","y"," ","l","i","g","h","t","i","n","g">>)) THEN Str(<<"E","m","e","r","g","e","n","c","y"," ","l","i","g","h","t","i","n","g">>)
           ELSE canonical
      [] ifc = <<"I","f","c","A","l","a","r","m">> ->
           IF _hit(name, Get(kw, <<"F","i","r","e"," ","A","l","a","r","m"," ","C","o","n","t","r","o","l"," ","p","a","n","e","l">>)) THEN Str(<<"F","i","r","e"," ","A","l","a","r","m"," ","C","o","n","t","r","o","l"," ","p","a","n","e","l">>)
           ELSE IF _hit(name, Get(kw, <<"A","u","d","i","b","l","e","/","v","i","s","u","a","l"," ","d","i","s","c","h","a","r","g","e"," ","a","l","a","r","m">>))
                THEN Str(<<"A","u","d","i","b","l","e","/","v","i","s","u","a","l"," ","d","i","s","c","h","a","r","g","e"," ","a","l","a","r","m">>)
           ELSE canonical
      [] ifc = <<"I","f","c","S","e","n","s","o","r">> -> Str(<<"D","e","t","e","c","t","o","r">>)
      [] ifc = <<"I","f","c","L","i","g","h","t","F","i","x","t","u","r","e">> -> Str(<<"L","i","g","h","t","i","n","g"," ","F","i","x","t","u","r","e">>)
      [] ifc = <<"I","f","c","S","w","i","t","c","h","i","n","g","D","e","v","i","c","e">> -> Str(<<"S","w","i","t","c","h"," ","(","v","a","r","i","o","u","s"," ","t","y","p","e","s",")">>)
      [] ifc = <<"I","f","c","O","u","t","l","e","t">> -> Str(<<"S","o","c","k","e","t","s">>)
      [] ifc = <<"I","f","c","C","a","b","l","e","S","e","g","m","e","n","t">> -> Str(<<"C","o","n","d","u","i","t">>)
      [] ifc = <<"I","f","c","C","a","b","l","e","F","i","t","t","i","n","g">> -> Str(<<"C","o","n","d","u","i","t"," ","f","i","t","t","i","n","g","s">>)
      [] OTHER -> canonical

\* the fallback IfcXxx -> Xxx, taken only when nothing was produced
ClassFallback(ifc, class_maps, canonical) ==
    IF ~Truthy(canonical) /\ InContainer(IfcGuess(ifc), Or(Get(class_maps, "allowed_classes"), List(<<>>)))
    THEN IfcGuess(ifc)
    ELSE canonical

_mock_map_to_tier1(ent, class_maps) ==
    LET ifc == Or(Get(ent, "ifc_class"), Str(<<>>)).s
        name == Or(Get(ent, "name"), Str(<<>>))
        attrs == Or(Get(ent, "attributes"), Dict(<<>>))
        ptype == _norm(Or(Get(attrs, "PredefinedType"),
                          Or(Get(attrs, "Predefinedtype"), Str(<<>>))))
        base_map == Or(Get(class_maps, "ifc_to_canonical"), Dict(<<>>))
        kw == Or(Get(class_maps, "keyword_overrides"), Dict(<<>>))
    IN  ClassFallback(ifc, class_maps,
                      ClassOverride(ifc, name, ptype, kw, Get(base_map, ifc)))

\* what the external model call gives: run_llm raised (network error,
\* timeout, HTTP error, no "response" text), or returned a text that
\* json.loads rejects, or a text that parses to the JSON value v
LLMRaise == [t |-> "raise"]
LLMNotJson == [t |-> "notjson"]
LLMJson(v) == [t |-> "json", v |-> v]

\* float(x)
FloatRaises(v) ==
    CASE v.t = "num" -> FALSE
      [] v.t = "bool" -> FALSE
      [] v.t = "str" -> ParseFloat(Strip(v.s)) = Null
      [] OTHER -> TRUE
Float(v) ==
    CASE v.t = "num" -> v
      [] v.t = "bool" -> Num(Int2Num(IF v.b THEN 1 ELSE 0))
      [] v.t = "str" -> ParseFloat(Strip(v.s))

IsMock(model_cfg) == _norm(model_cfg.model) = <<"m","o","c","k">>

\* _format_retrieved_block raises on documents that are not a list of maps
\* with a numeric rerank and text title and snippet
DocRaises(d) ==
    \/ ~IsDict(d)
    \/ Truthy(Get(d, "rerank")) /\ ~IsComparable(Get(d, "rerank"))
    \/ Truthy(Get(d, "title")) /\ ~IsStr(Get(d, "title"))
    \/ Truthy(Get(d, "snippet")) /\ ~IsStr(Get(d, "snippet"))
RetrievedBlockRaises(docs) ==
    /\ Truthy(docs)
    /\ \/ ~IsIterable(docs)
       \/ \E i \in DOMAIN Elements(docs) : DocRaises(Elements(docs)[i])

\* the statements of class_mapping outside its try block:
\* pack["entity"], the retrieved block, the neighbor summary, ent.get(...)
ClassMappingRaises(pack) ==
    \/ ~HasKey(pack, "entity")
    \/ RetrievedBlockRaises(Get(pack, "retrieved_docs"))
    \/ Truthy(Get(pack, "neighbors")) /\ ~IsIterable(Get(pack, "neighbors"))
    \/ ~IsDict(Get(pack, "entity"))

ClassOut(canonical, confidence, codes) ==
    [canonical_class |-> canonical, confidence |-> confidence, class_codes |-> codes]

\* the except branch of class_mapping
ClassFallbackOut == ClassOut(Null, Num(Int2Num(0)), Dict(<<>>))

\* data.get("confidence", 0.0): the default is used only when the key is missing
GetOr(d, k, dflt) == IF HasKey(d, k) THEN Get(d, k) ELSE dflt

\* the try block of class_mapping on the parsed response
ClassFromResponse(resp) ==
    IF resp.t # "json" \/ ~IsDict(resp.v) THEN ClassFallbackOut
    ELSE IF FloatRaises(GetOr(resp.v, "confidence", Num(Int2Num(0)))) THEN ClassFallbackOut
    ELSE ClassOut(Get(resp.v, "canonical_class"),
                  Float(GetOr(resp.v, "confidence", Num(Int2Num(0)))),
                  Or(GetOr(resp.v, "class_codes", Dict(<<>>)), Dict(<<>>)))

\* variant: the heuristic classifier is always sure of itself
class_mapping_AlwaysSure(pack, class_maps, model_cfg, resp) ==
    IF IsMock(model_cfg)
    THEN ClassOut(_mock_map_to_tier1(Get(pack, "entity"), class_maps), Num(Dec(9, 1)),
                  Dict(<< <<"IFC", Get(Get(pack, "entity"), "ifc_class")>>, <<"Uniclass", Null>> >>))
    ELSE ClassFromResponse(resp)

\* class_mapping, for a pack on which ClassMappingRaises is false
class_mapping(pack, class_maps, model_cfg, resp) ==
    LET ent == Get(pack, "entity")
        canonical == _mock_map_to_tier1(ent, class_maps)
    IN  IF IsMock(model_cfg)
        THEN ClassOut(canonical,
                      IF Truthy(canonical) THEN Num(Dec(9, 1)) ELSE Num(Dec(5, 1)),
                      Dict(<< <<"IFC", Get(ent, "ifc_class")>>, <<"Uniclass", Null>> >>))
        ELSE ClassFromResponse(resp)

\* property_extraction: [] in mock mode, the parsed list when the response
\* is a JSON list, [] otherwise
property_extraction(model_cfg, resp) ==
    IF IsMock(model_cfg) THEN List(<<>>)
    ELSE IF resp.t = "json" /\ resp.v.t = "list" THEN resp.v
    ELSE List(<<>>)

(***************************************************************************)
(* process_one_pack (ifc_to_canonical.py)                                  *)
(***************************************************************************)
\* d.get(v) for a key v that may be any hashable value: only a str can be
\* a key of a table read from YAML or JSON
GetV(d, v) == IF IsStr(v) THEN Get(d, v.s) ELSE Null

\* str(x), for the values an identifier or a property name can take
PyStr(v) ==
    CASE v.t = "str" -> v.s
      [] v.t = "null" -> <<"N","o","n","e">>
      [] v.t = "bool" -> IF v.b THEN <<"T","r","u","e">> ELSE <<"F","a","l","s","e">>

\* variant: an identifier drawn afresh at every call, as uuid4 would
stable_uuid_PerCall(source, local_id) ==
    [uuid5 |-> source \o <<":">> \o local_id, call |-> Len(assets_rows)]

\* uuid5(NAMESPACE_DNS, f"{source}:{local_id}"): a hash of the joined name,
\* taken to be collision-free
stable_uuid(source, local_id) == [uuid5 |-> source \o <<":">> \o local_id]

\* the (k, v) pairs of the property sets that are maps, in order
RECURSIVE PsetPairs(_)
PsetPairs(psets) ==
    IF psets = <<>> THEN <<>>
    ELSE (IF IsDict(Head(psets)[2]) THEN Head(psets)[2].items ELSE <<>>)
         \o PsetPairs(Tail(psets))

RECURSIVE FlattenInto(_, _)
FlattenInto(flat, pairs) ==
    IF pairs = <<>> THEN flat
    ELSE FlattenInto(IF Head(pairs)[1] = <<"i","d">> THEN flat
                     ELSE DictSet(flat, Head(pairs)[1], Head(pairs)[2]),
                     Tail(pairs))

flatten_known_props(entity_props) ==
    FlattenInto(Dict(<<>>), PsetPairs(Or(entity_props, Dict(<<>>)).items))

\* one entry of merged_props
PropObj(v, u, confidence, source) ==
    [v |-> v, u |-> u, confidence |-> confidence, source |-> source]

KnownObj(v) == PropObj(v, Null, Num(Int2Num(1)), "ifc")
InferredObj(rec) ==
    PropObj(Get(rec, "v"), Get(rec, "u"),
            Float(Or(Get(rec, "confidence"), Num(Int2Num(0)))), "llm")

\* "if not k: continue": an inferred record is applied unless str(k) is empty
InferredApplies(rec) == PyStr(Get(rec, "k")) # <<>>

RECURSIVE SeedKnown(_, _)
SeedKnown(merged, pairs) ==
    IF pairs = <<>> THEN merged
    ELSE SeedKnown(DictSet(merged, Head(pairs)[1], KnownObj(Head(pairs)[2])), Tail(pairs))

RECURSIVE ApplyInferred(_, _)
ApplyInferred(merged, recs) ==
    IF recs = <<>> THEN merged
    ELSE ApplyInferred(IF InferredApplies(Head(recs))
                       THEN DictSet(merged, PyStr(Get(Head(recs), "k")), InferredObj(Head(recs)))
                       ELSE merged,
                       Tail(recs))

\* variant: the known properties applied last, over the inferred ones
MergeProps_KnownLast(known_flat, new_props) ==
    SeedKnown(ApplyInferred(Dict(<<>>), Or(new_props, List(<<>>)).items), known_flat.items)

\* merged_props: name -> {v, u, confidence, source}
MergeProps(known_flat, new_props) ==
    ApplyInferred(SeedKnown(Dict(<<>>), known_flat.items), Or(new_props, List(<<>>)).items)

\* rec.get on a record that is no map, float() of a confidence that is no number
MergeRaises(new_props) ==
    \E i \in DOMAIN new_props.items :
        LET rec == new_props.items[i]
        IN  \/ ~IsDict(rec)
            \/ /\ InferredApplies(rec)
               /\ FloatRaises(Or(Get(rec, "confidence"), Num(Int2Num(0))))

\* the rule tables and configuration main() loads before the loop
Rules(model_cfg, class_maps, required, ranges, neighbors, unit_overrides, conf_threshold) ==
    [model_cfg |-> model_cfg, class_maps |-> class_maps, required |-> required,
     ranges |-> ranges, neighbors |-> neighbors, unit_overrides |-> unit_overrides,
     conf_threshold |-> conf_threshold]

\* merged_props after the normalization loop: each entry with its
\* value_norm, unit_norm and te_reason
NormalizedEntry(name, obj, unit_overrides) ==
    [name |-> name, obj |-> obj, norm |-> normalize_unit(name, obj.v, obj.u, unit_overrides)]

RECURSIVE NormalizedUpTo(_, _, _)
NormalizedUpTo(items, n, unit_overrides) ==
    IF n = 0 THEN <<>>
    ELSE Append(NormalizedUpTo(items, n - 1, unit_overrides),
                NormalizedEntry(items[n][1], items[n][2], unit_overrides))

Normalized(merged, unit_overrides) ==
    NormalizedUpTo(merged.items, Len(merged.items), unit_overrides)

NormalizationRaises(merged, unit_overrides) ==
    \E i \in DOMAIN merged.items :
        NormalizeRaises(merged.items[i][1], merged.items[i][2].v,
                        merged.items[i][2].u, unit_overrides)

\* the identifiers of the record
SourceOf(pack) == Or(Get(pack, "run_id"), Str(<<"u","n","k","n","o","w","n","_","r","u","n">>))
LocalIdOf(ent) ==
    Or(Get(ent, "uid"), Or(Get(ent, "global_id"), Or(Get(ent, "id"), Str(<<"u","n","k","n","o","w","n">>))))
\* variant: assets are numbered in the order in which they arrive
AssetIdOf_Sequential(pack) == [uuid5 |-> <<"#">>, nth |-> Len(assets_rows) + 1]

AssetIdOf(pack) ==
    stable_uuid(PyStr(SourceOf(pack)),
                PyStr(LocalIdOf(Or(Get(pack, "entity"), Dict(<<>>)))))

\* the statements before the first append: any exception there leaves the
\* four row lists untouched
PreEmitRaises(pack, rules, cresp, presp) ==
    \/ ~IsDict(pack)
    \/ ~IsDict(Or(Get(pack, "entity"), Dict(<<>>)))
    \/ ClassMappingRaises(pack)
    \/ LET props == Get(Get(pack, "entity"), "properties")
       IN  Truthy(props) /\ ~IsDict(props)
    \/ MergeRaises(property_extraction(rules.model_cfg, presp))
    \/ NormalizationRaises(
          MergeProps(flatten_known_props(Get(Get(pack, "entity"), "properties")),
                     property_extraction(rules.model_cfg, presp)),
          rules.unit_overrides)

AssetRow(asset_id, pack, ent, cls_out) ==
    [asset_id |-> asset_id,
     source |-> SourceOf(pack),
     local_id |-> LocalIdOf(ent),
     ifc_class |-> Get(ent, "ifc_class"),
     name |-> Get(ent, "name"),
     canonical_class |-> cls_out.canonical_class,
     class_confidence |-> Float(Or(cls_out.confidence, Num(Int2Num(0)))),
     class_codes |-> Or(cls_out.class_codes, Dict(<<>>)),
     location_site |-> Null, location_building |-> Null,
     location_level |-> Null, location_space |-> Null]

PropRow(asset_id, p) ==
    [asset_id |-> asset_id, name |-> p.name,
     value_raw |-> p.obj.v, unit_raw |-> p.obj.u,
     value_norm |-> p.norm.v, unit_norm |-> p.norm.u,
     confidence |-> p.obj.confidence, source |-> p.obj.source,
     te_reason |-> p.norm.reason]

\* variant: no row for an entry without a normalized value
HasValue(p) == p.norm.v # Null
PropRows_ValuedOnly(asset_id, normalized) ==
    [i \in DOMAIN SelectSeq(normalized, HasValue) |->
        PropRow(asset_id, SelectSeq(normalized, HasValue)[i])]

\* one property row per entry of merged_props
PropRows(asset_id, normalized) ==
    [i \in DOMAIN normalized |-> PropRow(asset_id, normalized[i])]

RelRow(asset_id, nb) ==
    [asset_id |-> asset_id, relation |-> Get(nb, "rel"), direction |-> Get(nb, "direction"),
     neighbor_class |-> Get(nb, "class"), neighbor_name |-> Get(nb, "name"),
     neighbor_uid |-> Get(nb, "uid")]

\* the neighbors the relation loop handles before nb.get raises, all of
\* them when every neighbor is a map
FirstBad(bad) ==
    IF \E i \in DOMAIN bad : bad[i]
    THEN CHOOSE i \in DOMAIN bad : bad[i] /\ \A j \in 1..(i - 1) : ~bad[j]
    ELSE Len(bad) + 1

NotDict(s) == [i \in DOMAIN s |-> ~IsDict(s[i])]
NeighborsOf(pack) == Elements(Or(Get(pack, "neighbors"), List(<<>>)))
RelationsRaise(pack) == FirstBad(NotDict(NeighborsOf(pack))) <= Len(NeighborsOf(pack))
RelRows(asset_id, pack) ==
    [i \in 1..(FirstBad(NotDict(NeighborsOf(pack))) - 1) |-> RelRow(asset_id, NeighborsOf(pack)[i])]

FlagRow(asset_id, flag, reason) == [asset_id |-> asset_id, flag |-> flag, reason |-> reason]

LowConfFlags(asset_id, class_conf, conf_threshold) ==
    IF NumLt(class_conf.x, conf_threshold)
    THEN <<FlagRow(asset_id, "LOW_AI_CONF", Msg(<<"class_conf=", class_conf>>))>>
    ELSE <<>>

\* (rule_required or {}).get(canonical) or []
RequiredFor(canonical, rule_required) ==
    Or(GetV(Or(rule_required, Dict(<<>>)), canonical), List(<<>>))

\* {k: value_norm} over merged_props
NormFlat(normalized) ==
    Dict([i \in DOMAIN normalized |-> <<normalized[i].name, normalized[i].norm.v>>])

MissingFlags(asset_id, normalized, required) ==
    LET missing == validate_required(NormFlat(normalized), required)
    IN  [i \in DOMAIN missing |-> FlagRow(asset_id, "MISSING_REQUIRED_PROPERTY", missing[i])]

RequiredRaises(canonical, rule_required) ==
    \/ ~IsHashable(canonical)
    \/ Truthy(rule_required) /\ ~IsDict(rule_required)
    \/ ValidateRequiredRaises(RequiredFor(canonical, Or(rule_required, Dict(<<>>))))

\* the OUT_OF_RANGE flags of the entries before the first one on which
\* validate_ranges raises
RECURSIVE RangeFlagsUpTo(_, _, _, _)
RangeFlagsUpTo(asset_id, normalized, ranges, n) ==
    IF n = 0 THEN <<>>
    ELSE LET p == normalized[n]
             msg == validate_ranges(p.name, p.norm.v, ranges)
         IN  RangeFlagsUpTo(asset_id, normalized, ranges, n - 1)
             \o (IF Truthy(msg)
                 THEN <<FlagRow(asset_id, "OUT_OF_RANGE", Msg(<<p.name, ": ", msg>>))>>
                 ELSE <<>>)

RangesFirstBad(normalized, ranges) ==
    FirstBad([i \in DOMAIN normalized |->
                 ValidateRangesRaises(normalized[i].name, normalized[i].norm.v, ranges)])

RangesRaise(normalized, ranges) == RangesFirstBad(normalized, ranges) <= Len(normalized)

RangeFlags(asset_id, normalized, ranges) ==
    RangeFlagsUpTo(asset_id, normalized, ranges, RangesFirstBad(normalized, ranges) - 1)

NeighborFlags(asset_id, canonical, pack, neighbor_rules) ==
    LET msg == validate_neighbors(canonical, Or(Get(pack, "neighbors"), List(<<>>)),
                                  Or(neighbor_rules, Dict(<<>>)))
    IN  IF Truthy(msg) THEN <<FlagRow(asset_id, "INCONSISTENT_NEIGHBOR", msg)>> ELSE <<>>

NeighborCheckRaises(canonical, pack, neighbor_rules) ==
    \/ Truthy(neighbor_rules) /\ ~IsDict(neighbor_rules)
    \/ ValidateNeighborsRaises(canonical, Or(Get(pack, "neighbors"), List(<<>>)),
                               Or(neighbor_rules, Dict(<<>>)))

\* the validation block: the flags appended and whether a check raised
ValidationRaises(canonical, normalized, pack, rules) ==
    \/ RequiredRaises(canonical, rules.required)
    \/ RangesRaise(normalized, Or(rules.ranges, Dict(<<>>)))
    \/ NeighborCheckRaises(canonical, pack, rules.neighbors)

FlagRows(asset_id, cls_out, normalized, pack, rules) ==
    LET canonical == cls_out.canonical_class
        ranges == Or(rules.ranges, Dict(<<>>))
        low == LowConfFlags(asset_id, Float(Or(cls_out.confidence, Num(Int2Num(0)))),
                            rules.conf_threshold)
    IN  IF RequiredRaises(canonical, rules.required) THEN low
        ELSE IF RangesRaise(normalized, ranges)
        THEN low \o MissingFlags(asset_id, normalized, RequiredFor(canonical, rules.required))
                 \o RangeFlags(asset_id, normalized, ranges)
        ELSE IF NeighborCheckRaises(canonical, pack, rules.neighbors)
        THEN low \o MissingFlags(asset_id, normalized, RequiredFor(canonical, rules.required))
                 \o RangeFlags(asset_id, normalized, ranges)
        ELSE low \o MissingFlags(asset_id, normalized, RequiredFor(canonical, rules.required))
                 \o RangeFlags(asset_id, normalized, ranges)
                 \o NeighborFlags(asset_id, canonical, pack, rules.neighbors)

\* what one call appends to the four row lists, and where it raised:
\* "pre" (before any append), "relations", "validate", or "" (returned)
PackOut(assets, props, rel, flags, raised) ==
    [assets |-> assets, props |-> props, rel |-> rel, flags |-> flags, raised |-> raised]

\* variant: the asset row appended last, after the validation block
EmitRows_AssetLast(pack, rules, asset_id, cls_out, normalized) ==
    PackOut(IF RelationsRaise(pack)
               \/ ValidationRaises(cls_out.canonical_class, normalized, pack, rules)
            THEN <<>>
            ELSE <<AssetRow(asset_id, pack, Or(Get(pack, "entity"), Dict(<<>>)), cls_out)>>,
            PropRows(asset_id, normalized),
            RelRows(asset_id, pack),
            IF RelationsRaise(pack) THEN <<>>
            ELSE FlagRows(asset_id, cls_out, normalized, pack, rules),
            IF RelationsRaise(pack) THEN "relations"
            ELSE IF ValidationRaises(cls_out.canonical_class, normalized, pack, rules)
            THEN "validate"
            ELSE "")

\* the appends of one call that reached "out_rows_assets.append"
EmitRows(pack, rules, asset_id, cls_out, normalized) ==
    PackOut(<<AssetRow(asset_id, pack, Or(Get(pack, "entity"), Dict(<<>>)), cls_out)>>,
            PropRows(asset_id, normalized),
            RelRows(asset_id, pack),
            IF RelationsRaise(pack) THEN <<>>
            ELSE FlagRows(asset_id, cls_out, normalized, pack, rules),
            IF RelationsRaise(pack) THEN "relations"
            ELSE IF ValidationRaises(cls_out.canonical_class, normalized, pack, rules)
            THEN "validate"
            ELSE "")

process_one_pack(pack, rules, cresp, presp) ==
    IF PreEmitRaises(pack, rules, cresp, presp) THEN PackOut(<<>>, <<>>, <<>>, <<>>, "pre")
    ELSE EmitRows(pack, rules, AssetIdOf(pack),
                  class_mapping(pack, rules.class_maps, rules.model_cfg, cresp),
                  Normalized(MergeProps(flatten_known_props(
                                            Get(Or(Get(pack, "entity"), Dict(<<>>)), "properties")),
                                        property_extraction(rules.model_cfg, presp)),
                             rules.unit_overrides))

(***************************************************************************)
(* Configuration and input of the modelled runs                            *)
(***************************************************************************)
\* bounds of the model
MaxLines == 2          \* lines of an input file, heuristic mode
MaxLimit == 1          \* largest --limit

\* rules/class_maps.yaml
ClassMaps ==
    Dict(<< <<"ifc_to_canonical",
              Dict(<< <<<<"I","f","c","P","u","m","p">>, Str(<<"P","u","m","p">>)>>, <<<<"I","f","c","W","a","l","l">>, Str(<<"W","a","l","l","s">>)>> >>)>>,
            <<"keyword_overrides",
              Dict(<< <<<<"E","x","t","e","r","n","a","l"," ","w","a","l","l","s"," ","(","f","a","ç","a","d","e",")">>, List(<<Str(<<"F","a","c","a","d","e">>), Str(<<"e","x","t","e","r","i","o","r">>)>>)>>,
                      <<<<"I","n","t","e","r","n","a","l"," ","w","a","l","l","s">>, List(<<Str(<<"p","a","r","t","i","t","i","o","n">>)>>)>> >>)>>,
            <<"allowed_classes",
              List(<<Str(<<"P","u","m","p">>), Str(<<"W","a","l","l","s">>), Str(<<"E","x","t","e","r","n","a","l"," ","w","a","l","l","s"," ","(","f","a","ç","a","d","e",")">>),
                     Str(<<"I","n","t","e","r","n","a","l"," ","w","a","l","l","s">>), Str(<<"P","i","p","e">>), Str(<<"V","a","l","v","e">>), Str(<<"D","o","o","r">>)>>)>> >>)

\* rules/required_props.yaml
RequiredRules ==
    Dict(<< <<<<"P","u","m","p">>, List(<<Str(<<"F","l","o","w">>), Str(<<"L","e","n","g","t","h">>)>>)>>,
            <<<<"W","a","l","l","s">>, List(<<Str(<<"M","a","t","e","r","i","a","l">>)>>)>>,
            <<<<"E","x","t","e","r","n","a","l"," ","w","a","l","l","s"," ","(","f","a","ç","a","d","e",")">>, List(<<Str(<<"M","a","t","e","r","i","a","l">>), Str(<<"W","i","d","t","h">>), Str(<<"H","e","i","g","h","t">>)>>)>> >>)

\* rules/ranges.yaml; the entry of Flow has no upper bound, the entry of
\* Depth has a bound that is no number
RangesRules ==
    Dict(<< <<<<"L","e","n","g","t","h">>, Dict(<< <<"min", Num(Int2Num(0))>>, <<"max", Num(Int2Num(10))>> >>)>>,
            <<<<"F","l","o","w">>, Dict(<< <<"min", Num(Int2Num(4))>> >>)>>,
            <<<<"D","e","p","t","h">>, Dict(<< <<"min", Str(<<"z","e","r","o">>)>> >>)>> >>)

\* rules/neighbor_rules.yaml
NeighborRules ==
    Dict(<< <<<<"P","u","m","p">>, List(<<Str(<<"P","i","p","e">>), Str(<<"V","a","l","v","e">>)>>)>>,
            <<<<"E","x","t","e","r","n","a","l"," ","w","a","l","l","s"," ","(","f","a","ç","a","d","e",")">>, List(<<Str(<<"D","o","o","r">>)>>)>> >>)

\* rules/unit_overrides.yaml
UnitOverrides == Dict(<< <<"defaults", Dict(<< <<<<"w","i","d","t","h">>, Str(<<"m","m">>)>> >>)>> >>)

\* cfg.get("confidence_threshold", 0.75)
ConfThreshold == Dec(75, 2)

ModelCfg(model) == [model |-> Str(model), max_tokens |-> 800, temperature |-> 0]

RulesMock ==
    Rules(ModelCfg(<<"m","o","c","k">>), ClassMaps, RequiredRules, RangesRules, NeighborRules,
          UnitOverrides, ConfThreshold)
RulesLLM ==
    Rules(ModelCfg(<<"o","l","l","a","m","a",":","q","w","e","n","2",".","5">>), ClassMaps, RequiredRules, RangesRules, NeighborRules,
          UnitOverrides, ConfThreshold)

\* records of the input file
Neighbor(rel, class, uid) ==
    Dict(<< <<"rel", Str(rel)>>, <<"direction", Str(<<"o","u","t">>)>>, <<"class", Str(class)>>,
            <<"name", Null>>, <<"uid", Str(uid)>> >>)

\* a pump with two known properties and an expected neighbor
PackPump ==
    Dict(<< <<"run_id", Str(<<"r","1">>)>>,
            <<"entity", Dict(<< <<"uid", Str(<<"p","1">>)>>, <<"ifc_class", Str(<<"I","f","c","P","u","m","p">>)>>,
                                <<"name", Str(<<"P","u","m","p"," ","A">>)>>,
                                <<"properties",
                                  Dict(<< <<<<"P","s","e","t","_","P","u","m","p">>,
                                            Dict(<< <<<<"i","d">>, Num(Int2Num(7))>>,
                                                    <<<<"F","l","o","w">>, Str(<<"1","0"," ","L","/","m","i","n">>)>>,
                                                    <<<<"L","e","n","g","t","h">>, Str(<<"1","2","0","0"," ","m","m">>)>> >>)>> >>)>> >>)>>,
            <<"neighbors", List(<<Neighbor(<<"c","o","n","n","e","c","t","e","d","T","o">>, <<"P","i","p","e">>, <<"n","1">>)>>)>> >>)

\* a pump without any identifier, a length above its upper bound, a flow
\* equal to its lower bound, and no neighbors
PackNoId ==
    Dict(<< <<"run_id", Str(<<"r","1">>)>>,
            <<"entity", Dict(<< <<"ifc_class", Str(<<"I","f","c","P","u","m","p">>)>>,
                                <<"name", Str(<<"P","u","m","p"," ","B">>)>>,
                                <<"properties",
                                  Dict(<< <<<<"P","s","e","t","_","P","u","m","p">>,
                                            Dict(<< <<<<"L","e","n","g","t","h">>, Num(Int2Num(12))>>,
                                                    <<<<"F","l","o","w">>, Num(Int2Num(4))>> >>)>> >>)>> >>)>> >>)

\* a wall classified by keyword, a text property, a property set that is
\* no map, a name repeated across property sets and once more in lower
\* case, an unexpected neighbor
PackWall ==
    Dict(<< <<"run_id", Str(<<"r","1">>)>>,
            <<"entity", Dict(<< <<"uid", Str(<<"w","1">>)>>, <<"ifc_class", Str(<<"I","f","c","W","a","l","l">>)>>,
                                <<"name", Str(<<"E","x","t","e","r","i","o","r"," ","W","a","l","l">>)>>,
                                <<"properties",
                                  Dict(<< <<<<"P","s","e","t","_","A">>,
                                            Dict(<< <<<<"M","a","t","e","r","i","a","l">>, Str(<<"C","o","n","c","r","e","t","e">>)>>,
                                                    <<<<"W","i","d","t","h">>, Num(Int2Num(200))>> >>)>>,
                                          <<<<"P","s","e","t","_","B">>, Str(<<"n","/","a">>)>>,
                                          <<<<"P","s","e","t","_","C">>,
                                            Dict(<< <<<<"W","i","d","t","h">>, Num(Int2Num(250))>>,
                                                    <<<<"w","i","d","t","h">>, Str(<<"2","5"," ","c","m">>)>> >>)>> >>)>> >>)>>,
            <<"neighbors", List(<<Neighbor(<<"b","o","u","n","d","s">>, <<"P","u","m","p">>, <<"p","1">>)>>)>> >>)

\* an unmapped class without any identifier, with a property whose range
\* entry is malformed
PackDepth ==
    Dict(<< <<"run_id", Str(<<"r","1">>)>>,
            <<"entity", Dict(<< <<"ifc_class", Str(<<"I","f","c","F","o","o">>)>>,
                                <<"properties",
                                  Dict(<< <<<<"P","s","e","t","_","A">>,
                                            Dict(<< <<<<"L","e","n","g","t","h">>, Str(<<"-","5"," ","m","m">>)>>,
                                                    <<<<"D","e","p","t","h">>, Num(Int2Num(3))>> >>)>> >>)>> >>)>> >>)

\* a neighbor list whose second entry is no map
PackBadNb ==
    Dict(<< <<"run_id", Str(<<"r","1">>)>>,
            <<"entity", Dict(<< <<"uid", Str(<<"b","1">>)>>, <<"ifc_class", Str(<<"I","f","c","P","u","m","p">>)>>,
                                <<"properties",
                                  Dict(<< <<<<"P","s","e","t","_","A">>,
                                            Dict(<< <<<<"L","e","n","g","t","h">>, Str(<<"5"," ","m">>)>> >>)>> >>)>> >>)>>,
            <<"neighbors", List(<<Neighbor(<<"c","o","n","n","e","c","t","e","d","T","o">>, <<"P","i","p","e">>, <<"n","1">>), Str(<<"n","2">>)>>)>> >>)

\* valid JSON that is no object, and an object without "entity"
PackList == List(<<>>)
PackNoEntity == Dict(<< <<"run_id", Str(<<"r","1">>)>> >>)

\* a known property with an empty name, a Length equal to its upper bound
\* and a Flow equal to its lower bound
PackEmptyName ==
    Dict(<< <<"run_id", Str(<<"r","2">>)>>,
            <<"entity", Dict(<< <<"uid", Str(<<"e","1">>)>>, <<"ifc_class", Str(<<"I","f","c","P","u","m","p">>)>>,
                                <<"properties",
                                  Dict(<< <<<<"P","s","e","t","_","A">>,
                                            Dict(<< <<<<>>, Num(Int2Num(1))>>,
                                                    <<<<"L","e","n","g","t","h">>, Num(Int2Num(10))>>,
                                                    <<<<"F","l","o","w">>, Num(Int2Num(4))>> >>)>> >>)>> >>)>> >>)

\* a line of the input file
BlankLine == [t |-> "blank"]          \* empty after strip()
BadJsonLine == [t |-> "badjson"]      \* json.loads raises
JsonLine(v) == [t |-> "json", v |-> v]

MockLines ==
    {BlankLine, BadJsonLine, JsonLine(PackPump), JsonLine(PackNoId), JsonLine(PackWall),
     JsonLine(PackDepth), JsonLine(PackBadNb), JsonLine(PackList), JsonLine(PackNoEntity)}
LLMLines == {JsonLine(PackPump), JsonLine(PackEmptyName)}

SeqsUpTo(S, n) == UNION {[1..k -> S] : k \in 0..n}

\* what the external classifier may answer
ClassResponses ==
    {LLMRaise, LLMNotJson,
     LLMJson(List(<<Str(<<"P","u","m","p">>)>>)),
     LLMJson(Dict(<< <<"canonical_class", Str(<<"P","u","m","p">>)>>, <<"confidence", Num(Dec(8, 1))>>,
                     <<"class_codes", Null>> >>)),
     LLMJson(Dict(<< <<"canonical_class", Str(<<"P","u","m","p">>)>>, <<"confidence", Str(<<"h","i","g","h">>)>> >>)),
     LLMJson(Dict(<< <<"canonical_class", Str(<<"P","u","m","p">>)>> >>)),
     LLMJson(Dict(<< <<"confidence", Num(Dec(8, 1))>> >>)),
     LLMJson(Dict(<< <<"canonical_class", Str(<<"R","o","b","o","t">>)>>, <<"confidence", Num(Dec(15, 1))>> >>))}

InferredRec(k, v, u, confidence) ==
    Dict(<< <<"k", k>>, <<"v", v>>, <<"u", u>>, <<"confidence", confidence>> >>)

\* what the external property extractor may answer
PropResponses ==
    {LLMRaise, LLMNotJson,
     LLMJson(Dict(<< <<"k", Str(<<"L","e","n","g","t","h">>)>> >>)),
     LLMJson(List(<<InferredRec(Str(<<"L","e","n","g","t","h">>), Str(<<"3">>), Str(<<"f","t">>), Num(Dec(6, 1))),
                    InferredRec(Str(<<>>), Num(Int2Num(9)), Null, Num(Dec(9, 1))),
                    InferredRec(Str(<<"P","o","w","e","r">>), Num(Int2Num(2)), Str(<<"k","W">>), Null),
                    InferredRec(Str(<<"L","e","n","g","t","h">>), Num(Int2Num(4)), Null, Num(Dec(7, 1)))>>)),
     LLMJson(List(<<Str(<<"L","e","n","g","t","h">>)>>)),
     LLMJson(List(<<InferredRec(Str(<<"L","e","n","g","t","h">>), Num(Int2Num(3)), Null, Str(<<"h","i","g","h">>))>>))}

\* the answers a step may draw: none is read in heuristic mode
ClassAnswers(r) == IF IsMock(r.model_cfg) THEN {LLMRaise} ELSE ClassResponses
PropAnswers(r) == IF IsMock(r.model_cfg) THEN {LLMRaise} ELSE PropResponses

(***************************************************************************)
(* main(): the run loop, the CSV files and the stage report                *)
(***************************************************************************)
vars == <<infile, args, rule_tables, line_no, total, errors, assets_rows, props_rows, rel_rows,
          flag_rows, pc, outputs, log, call, ret, missing_files>>

InitMock ==
    /\ missing_files = {}
    /\ infile \in SeqsUpTo(MockLines, MaxLines)
    /\ args \in [tolerant : BOOLEAN, limit : 0..MaxLimit]
    /\ rule_tables = RulesMock

\* a delegated run reads a file of one record: the answers of the external
\* model vary per record, and runs over several records are those of InitMock
InitLLM ==
    /\ missing_files = {}
    /\ infile \in {<<line>> : line \in LLMLines}
    /\ args \in [tolerant : BOOLEAN, limit : {0}]
    /\ rule_tables = RulesLLM

\* load_yaml: {} for a path that does not exist
load_yaml(absent, path, content) == IF path \in absent THEN Dict(<<>>) ELSE content

RuleFiles == {"class_maps", "required_props", "ranges", "neighbor_rules"}

\* the tables of a heuristic run started while the files "absent" are missing
LoadedRules(absent) ==
    Rules(ModelCfg(<<"m","o","c","k">>),
          load_yaml(absent, "class_maps", ClassMaps),
          load_yaml(absent, "required_props", RequiredRules),
          load_yaml(absent, "ranges", RangesRules),
          load_yaml(absent, "neighbor_rules", NeighborRules),
          UnitOverrides, ConfThreshold)

\* a run started with one rule file, or all of them, missing, or on an input
\* path that cannot be opened (no line of it is ever read)
InitMissing ==
    /\ missing_files \in {{f} : f \in RuleFiles \cup {"input"}} \cup {RuleFiles}
    /\ infile \in IF "input" \in missing_files THEN {<<>>}
                  ELSE {<<line>> : line \in {JsonLine(PackPump), JsonLine(PackNoId),
                                             JsonLine(PackWall)}}
    /\ args \in [tolerant : BOOLEAN, limit : {0}]
    /\ rule_tables = LoadedRules(missing_files)

Init ==
    /\ InitMock \/ InitLLM \/ InitMissing
    /\ line_no = 0
    /\ total = 0
    /\ errors = 0
    /\ assets_rows = <<>>
    /\ props_rows = <<>>
    /\ rel_rows = <<>>
    /\ flag_rows = <<>>
    /\ pc = IF "input" \in missing_files THEN "open" ELSE "loop"
    /\ outputs = Null
    /\ log = <<>>
    /\ call = Null
    /\ ret = <<>>

RowCounts == <<Len(assets_rows), Len(props_rows), Len(rel_rows), Len(flag_rows)>>

\* the record of one loop iteration, kept for the properties below
LogEntry(index, outcome, out, cresp, presp, before) ==
    [index |-> index, outcome |-> outcome, stage |-> out.raised, cresp |-> cresp,
     presp |-> presp, before |-> before,
     after |-> <<before[1] + Len(out.assets), before[2] + Len(out.props),
                 before[3] + Len(out.rel), before[4] + Len(out.flags)>>,
     emitted |-> out]

NoRows == PackOut(<<>>, <<>>, <<>>, <<>>, "")

NextLine == infile[line_no + 1]
OverLimit == args.limit # 0 /\ total + 1 > args.limit

\* variant: the loop never breaks on an error
StopAfterError_Never(tolerant) == FALSE

\* after an error: break unless --tolerant
StopAfterError(tolerant) == ~tolerant

\* "with infile.open(...)" raises on a path that cannot be opened: main()
\* ends with the exception, before the loop and before any file is written
OpenFails ==
    /\ pc = "open"
    /\ "input" \in missing_files
    /\ pc' = "failed"
    /\ UNCHANGED <<missing_files, call, ret, infile, args, rule_tables, line_no, total, errors,
                   assets_rows, props_rows, rel_rows, flag_rows, outputs, log>>

\* "if not line: continue"
SkipBlank ==
    /\ pc = "loop" /\ line_no < Len(infile)
    /\ NextLine.t = "blank"
    /\ line_no' = line_no + 1
    /\ log' = Append(log, LogEntry(line_no + 1, "blank", NoRows, Null, Null, RowCounts))
    /\ UNCHANGED <<missing_files, call, ret, infile, args, rule_tables, total, errors,
                   assets_rows, props_rows, rel_rows,
                   flag_rows, pc, outputs>>

\* "total += 1; if args.limit and total > args.limit: break"
LimitReached ==
    /\ pc = "loop" /\ line_no < Len(infile)
    /\ NextLine.t # "blank"
    /\ OverLimit
    /\ line_no' = line_no + 1
    /\ total' = total + 1
    /\ pc' = "write"
    /\ log' = Append(log, LogEntry(line_no + 1, "limit", NoRows, Null, Null, RowCounts))
    /\ UNCHANGED <<missing_files, call, ret, infile, args, rule_tables, errors,
                   assets_rows, props_rows, rel_rows,
                   flag_rows, outputs>>

\* what the try block does to the row lists: json.loads, then process_one_pack
TryLine(line, r, cresp, presp) ==
    IF line.t = "badjson" THEN PackOut(<<>>, <<>>, <<>>, <<>>, "json")
    ELSE process_one_pack(line.v, r, cresp, presp)

\* variant: the rows of an iteration are put in front of the lists
AppendRows_Prepend(out, cresp, presp) ==
    /\ assets_rows' = out.assets \o assets_rows
    /\ props_rows' = out.props \o props_rows
    /\ rel_rows' = out.rel \o rel_rows
    /\ flag_rows' = out.flags \o flag_rows
    /\ log' = Append(log, LogEntry(line_no + 1, IF out.raised = "" THEN "ok" ELSE "error",
                                   out, cresp, presp, RowCounts))

\* the appends of one iteration whose try block did "out", and its log entry
AppendRows(out, cresp, presp) ==
    /\ assets_rows' = assets_rows \o out.assets
    /\ props_rows' = props_rows \o out.props
    /\ rel_rows' = rel_rows \o out.rel
    /\ flag_rows' = flag_rows \o out.flags
    /\ log' = Append(log, LogEntry(line_no + 1, IF out.raised = "" THEN "ok" ELSE "error",
                                   out, cresp, presp, RowCounts))

Returned(out, cresp, presp) == out.raised = "" /\ AppendRows(out, cresp, presp)
Raised(out, cresp, presp) == out.raised # "" /\ AppendRows(out, cresp, presp)

\* one iteration on a non-blank line within the limit that raises nothing
RecordOk ==
    /\ pc = "loop" /\ line_no < Len(infile)
    /\ NextLine.t # "blank"
    /\ ~OverLimit
    /\ \E cresp \in ClassAnswers(rule_tables), presp \in PropAnswers(rule_tables) :
         Returned(TryLine(NextLine, rule_tables, cresp, presp), cresp, presp)
    /\ line_no' = line_no + 1
    /\ total' = total + 1
    /\ UNCHANGED <<missing_files, call, ret, infile, args, rule_tables, errors, pc, outputs>>

\* one iteration that raises: the rows appended before the exception stay,
\* the error is counted, and the loop breaks unless --tolerant
RecordError ==
    /\ pc = "loop" /\ line_no < Len(infile)
    /\ NextLine.t # "blank"
    /\ ~OverLimit
    /\ \E cresp \in ClassAnswers(rule_tables), presp \in PropAnswers(rule_tables) :
         Raised(TryLine(NextLine, rule_tables, cresp, presp), cresp, presp)
    /\ line_no' = line_no + 1
    /\ total' = total + 1
    /\ errors' = errors + 1
    /\ pc' = IF StopAfterError(args.tolerant) THEN "write" ELSE "loop"
    /\ UNCHANGED <<missing_files, call, ret, infile, args, rule_tables, outputs>>

\* the file is exhausted
EndOfInput ==
    /\ pc = "loop" /\ line_no = Len(infile)
    /\ pc' = "write"
    /\ UNCHANGED <<missing_files, call, ret, infile, args, rule_tables, line_no, total, errors,
                   assets_rows, props_rows,
                   rel_rows, flag_rows, outputs, log>>

\* write_csv: every row, restricted to the headers
write_csv(rows, headers) == [n \in DOMAIN rows |-> [h \in headers |-> rows[n][h]]]

AssetHeaders ==
    {"asset_id", "source", "local_id", "ifc_class", "name", "canonical_class",
     "class_confidence", "class_codes", "location_site", "location_building",
     "location_level", "location_space"}
PropHeaders ==
    {"asset_id", "name", "value_raw", "unit_raw", "value_norm", "unit_norm",
     "confidence", "source", "te_reason"}
RelHeaders ==
    {"asset_id", "relation", "direction", "neighbor_class", "neighbor_name", "neighbor_uid"}
FlagHeaders == {"asset_id", "flag", "reason"}

StageReport ==
    [total_input_lines |-> total, assets_written |-> Len(assets_rows),
     props_written |-> Len(props_rows), relations_written |-> Len(rel_rows),
     flags_written |-> Len(flag_rows), errors |-> errors]

\* the four CSV files and stage_report.json
WriteOutputs ==
    /\ pc = "write"
    /\ outputs' = [assets |-> write_csv(assets_rows, AssetHeaders),
                   props |-> write_csv(props_rows, PropHeaders),
                   relations |-> write_csv(rel_rows, RelHeaders),
                   flags |-> write_csv(flag_rows, FlagHeaders),
                   stage_report |-> StageReport]
    /\ pc' = "done"
    /\ UNCHANGED <<missing_files, call, ret, infile, args, rule_tables, line_no, total, errors,
                   assets_rows, props_rows,
                   rel_rows, flag_rows, log>>

Next ==
    \/ OpenFails
    \/ SkipBlank
    \/ LimitReached
    \/ RecordOk
    \/ RecordError
    \/ EndOfInput
    \/ WriteOutputs

Spec == Init /\ [][Next]_vars

(***************************************************************************)
(* normalize_unit called on its own: one call on arguments drawn from the  *)
(* catalogue below, then a second call on the value and unit the first one *)
(* returned.                                                               *)
(***************************************************************************)
\* property names: every kind of NAME_ALIASES that has a branch, a name with
\* a default override (width), a name classified by its suffix, and names
\* of the kinds that fall through to "noop"
CallNames ==
    {<<"L","e","n","g","t","h">>, <<"W","i","d","t","h">>, <<"S","h","a","f","t","_","m","m">>, <<"N","e","t","A","r","e","a">>, <<"V","o","l","u","m","e">>, <<"F","l","o","w">>, <<"T","e","m","p","e","r","a","t","u","r","e">>, <<"P","r","e","s","s","u","r","e">>,
     <<"P","o","w","e","r">>, <<"V","o","l","t","a","g","e">>, <<"C","u","r","r","e","n","t">>, <<"F","r","e","q","u","e","n","c","y">>, <<"E","f","f","i","c","i","e","n","c","y">>, <<"A","n","g","l","e">>, <<"V","e","l","o","c","i","t","y">>, <<"C","o","l","o","u","r">>}

\* unit arguments: none, the empty text, every symbol of UNIT_CANON's
\* values, the symbols of the kinds without a table, some spellings that
\* UNIT_CANON maps, an unknown text, and a number (not a text)
NoUnits == {Null, Str(<<>>)}
SmallFactorUnits ==
    {Str(<<"m">>), Str(<<"m","m">>), Str(<<"c","m">>), Str(<<"i","n">>), Str(<<"f","t">>), Str(<<"L">>), Str(<<"L","/","s">>), Str(<<"L","/","m","i","n">>),
     Str(<<"m","³","/","h">>), Str(<<"°","C">>), Str(<<"°","F">>), Str(<<"K">>), Str(<<"P","a">>), Str(<<"k","P","a">>), Str(<<"b","a","r">>),
     Str(<<"k","W">>), Str(<<"W">>), Str(<<"%">>), Str(<<"V">>), Str(<<"d","e","g">>)}
LargeFactorUnits ==
    {Str(<<"m","²">>), Str(<<"m","m","²">>), Str(<<"c","m","²">>), Str(<<"f","t","²">>), Str(<<"m","³">>), Str(<<"m","L">>), Str(<<"f","t","³">>),
     Str(<<"g","a","l">>), Str(<<"m","³","/","s">>), Str(<<"C","F","M">>), Str(<<"G","P","M">>), Str(<<"M","P","a">>), Str(<<"p","s","i">>), Str(<<"h","p">>),
     Str(<<"B","T","U","/","h">>), Str(<<"A">>), Str(<<"H","z">>), Str(<<"m","/","s">>), Str(<<"R","P","M">>)}
SpelledUnits ==
    {Str(<<"M","M">>), Str(<<"m","e","t","e","r">>), Str(<<"m","2">>), Str(<<"s","q","f","t">>), Str(<<"l","p","m">>), Str(<<"F">>), Str(<<"v">>),
     Str(<<"f","u","r","l","o","n","g">>)}
CallUnits == NoUnits \cup SmallFactorUnits \cup LargeFactorUnits \cup SpelledUnits \cup {Num(Int2Num(5))}

\* raw values: numbers whose products with every factor of the tables stay
\* within the integers of TLC, None, and texts
UnitValues == {Num(Int2Num(0)), Num(Int2Num(1)), Null}
WideValues ==
    {Num(Int2Num(1200)), Num(Int2Num(68)), Num(Dec(42, 2)), Num(Dec(15, 1)), Num(Int2Num(-1))}
TextValues ==
    {Str(<<"1","2","0","0"," ","m","m">>), Str(<<"6","8"," ","°","F">>), Str(<<"1"," ","b","a","r">>),
     Str(<<"1"," ","m","³","/","h">>), Str(<<"0",".","4","2">>), Str(<<"4","2","%">>),
     Str(<<"n","/","a">>), Str(<<>>), Str(<<"N","a","N">>), Str(<<"-","i","n","f">>),
     Str(<<"2","5"," ","c","m">>), Str(<<"-","5"," ","m","m">>), Str(<<"1",",","2","0","0"," ","m","m">>),
     Str(<<"1","2","0","0"," ","k","P","a">>)}

CallsOf(names, values, units) ==
    {[name |-> n, value |-> v, unit |-> u, unit_overrides |-> o] :
        n \in names, v \in values, u \in units, o \in {Null, UnitOverrides}}

Calls ==
    CallsOf(CallNames, UnitValues, CallUnits)
        \cup CallsOf(CallNames, WideValues \cup TextValues, NoUnits \cup SmallFactorUnits)

InitCalls ==
    /\ call \in Calls
    /\ ret = <<>>
    /\ pc = "call"
    /\ missing_files = {}
    /\ infile = <<>>
    /\ args = [tolerant |-> FALSE, limit |-> 0]
    /\ rule_tables = RulesMock
    /\ line_no = 0
    /\ total = 0
    /\ errors = 0
    /\ assets_rows = <<>>
    /\ props_rows = <<>>
    /\ rel_rows = <<>>
    /\ flag_rows = <<>>
    /\ outputs = Null
    /\ log = <<>>

Pipeline == <<missing_files, infile, args, rule_tables, line_no, total, errors, assets_rows, props_rows,
              rel_rows, flag_rows, outputs, log>>

\* normalize_unit(name, value, unit, unit_overrides) returns
CallReturns ==
    /\ pc = "call" /\ ret = <<>>
    /\ ~NormalizeRaises(call.name, call.value, call.unit, call.unit_overrides)
    /\ ret' = <<normalize_unit(call.name, call.value, call.unit, call.unit_overrides)>>
    /\ UNCHANGED <<call, pc, Pipeline>>

\* normalize_unit raises AttributeError: the unit is truthy and not a text
CallRaises ==
    /\ pc = "call" /\ ret = <<>>
    /\ NormalizeRaises(call.name, call.value, call.unit, call.unit_overrides)
    /\ pc' = "raised"
    /\ UNCHANGED <<call, ret, Pipeline>>

\* normalize_unit(name, value_norm, unit_norm, unit_overrides) on the result
\* of the first call
CallAgain ==
    /\ pc = "call" /\ Len(ret) = 1
    /\ ~NormalizeRaises(call.name, ret[1].v, ret[1].u, call.unit_overrides)
    /\ ret' = Append(ret, normalize_unit(call.name, ret[1].v, ret[1].u, call.unit_overrides))
    /\ UNCHANGED <<call, pc, Pipeline>>

NextCalls ==
    \/ CallReturns
    \/ CallRaises
    \/ CallAgain

SpecCalls == InitCalls /\ [][NextCalls]_vars

(***************************************************************************)
(* _mock_map_to_tier1 called on its own, on entities and class maps drawn  *)
(* from the catalogue below.                                               *)
(***************************************************************************)
\* a class map with a base-map entry for classes that also have a
\* class-specific rule, and keywords for some of the labels
ClassMapsWide ==
    Dict(<< <<"ifc_to_canonical",
              Dict(<< <<<<"I","f","c","P","u","m","p">>, Str(<<"P","u","m","p">>)>>, <<<<"I","f","c","W","a","l","l">>, Str(<<"W","a","l","l","s">>)>>,
                      <<<<"I","f","c","S","l","a","b">>, Str(<<"S","l","a","b","s">>)>>, <<<<"I","f","c","C","o","l","u","m","n">>, Str(<<"C","o","l","u","m","n","s">>)>>,
                      <<<<"I","f","c","B","e","a","m">>, Str(<<"B","e","a","m","s">>)>>, <<<<"I","f","c","S","e","n","s","o","r">>, Str(<<"S","e","n","s","o","r","s">>)>>,
                      <<<<"I","f","c","L","a","m","p">>, Str(<<"L","a","m","p","s">>)>>, <<<<"I","f","c","F","l","o","w","T","e","r","m","i","n","a","l">>, Str(<<"T","e","r","m","i","n","a","l","s">>)>> >>)>>,
            <<"keyword_overrides",
              Dict(<< <<<<"E","x","t","e","r","n","a","l"," ","w","a","l","l","s"," ","(","f","a","ç","a","d","e",")">>, List(<<Str(<<"e","x","t","e","r","i","o","r">>)>>)>>,
                      <<<<"C","o","l","u","m","n"," ","(","S","t","e","e","l",")">>, List(<<Str(<<"s","t","e","e","l">>)>>)>>,
                      <<<<"B","e","a","m"," ","(","S","t","e","e","l",")">>, List(<<Str(<<"s","t","e","e","l">>)>>)>>,
                      <<<<"F","l","o","o","r","s">>, List(<<Str(<<"f","l","o","o","r">>)>>)>>,
                      <<<<"H","y","d","r","a","n","t">>, List(<<Str(<<"h","y","d","r","a","n","t">>)>>)>>,
                      <<<<"E","m","e","r","g","e","n","c","y"," ","l","i","g","h","t","i","n","g">>, List(<<Str(<<"e","x","i","t">>)>>)>> >>)>>,
            <<"allowed_classes",
              List(<<Str(<<"P","u","m","p">>), Str(<<"D","o","o","r">>), Str(<<"C","o","v","e","r","i","n","g">>), Str(<<"A","l","a","r","m">>)>>)>> >>)

\* the classes with a rule of their own, two classes without one, a class
\* the fallback does not know, a text that is no Ifc name, and no class
EntityClasses ==
    {<<"I","f","c","W","a","l","l">>, <<"I","f","c","S","l","a","b">>, <<"I","f","c","C","o","v","e","r","i","n","g">>, <<"I","f","c","C","o","l","u","m","n">>, <<"I","f","c","B","e","a","m">>, <<"I","f","c","D","u","c","t","S","e","g","m","e","n","t">>,
     <<"I","f","c","F","i","r","e","S","u","p","p","r","e","s","s","i","o","n","T","e","r","m","i","n","a","l">>, <<"I","f","c","F","l","o","w","T","e","r","m","i","n","a","l">>, <<"I","f","c","L","a","m","p">>, <<"I","f","c","A","l","a","r","m">>, <<"I","f","c","S","e","n","s","o","r">>,
     <<"I","f","c","L","i","g","h","t","F","i","x","t","u","r","e">>, <<"I","f","c","S","w","i","t","c","h","i","n","g","D","e","v","i","c","e">>, <<"I","f","c","O","u","t","l","e","t">>, <<"I","f","c","C","a","b","l","e","S","e","g","m","e","n","t">>,
     <<"I","f","c","C","a","b","l","e","F","i","t","t","i","n","g">>, <<"I","f","c","P","u","m","p">>, <<"I","f","c","D","o","o","r">>, <<"I","f","c","F","o","o">>, <<"P","u","m","p">>, <<>>}
EntityNames ==
    {Null, Str(<<"C","1">>), Str(<<"S","t","e","e","l"," ","f","r","a","m","e">>), Str(<<"E","x","t","e","r","i","o","r"," ","W","a","l","l">>), Str(<<"F","l","o","o","r"," ","h","y","d","r","a","n","t">>),
     Str(<<"E","x","i","t"," ","s","i","g","n">>)}
EntityTypes == {Null, Str(<<"F","L","O","O","R">>), Str(<<"R","O","O","F">>), Str(<<"B","A","S","E","S","L","A","B">>), Str(<<"C","E","I","L","I","N","G">>), Str(<<" ","f","l","o","o","r","i","n","g"," ">>)}

EntityOf(ifc, name, ptype) ==
    Dict(<< <<"ifc_class", IF ifc = <<>> THEN Null ELSE Str(ifc)>>, <<"name", name>>,
            <<"attributes", IF ptype = Null THEN Null
                            ELSE Dict(<< <<<<"P","r","e","d","e","f","i","n","e","d","T","y","p","e">>, ptype>> >>)>> >>)

ClassifyCalls ==
    {[ent |-> EntityOf(c, n, p), class_maps |-> m] :
        c \in EntityClasses, n \in EntityNames, p \in EntityTypes,
        m \in {ClassMapsWide, ClassMaps, Dict(<<>>)}}

InitClassify ==
    /\ call \in ClassifyCalls
    /\ ret = <<>>
    /\ pc = "classify"
    /\ missing_files = {}
    /\ infile = <<>>
    /\ args = [tolerant |-> FALSE, limit |-> 0]
    /\ rule_tables = RulesMock
    /\ line_no = 0
    /\ total = 0
    /\ errors = 0
    /\ assets_rows = <<>>
    /\ props_rows = <<>>
    /\ rel_rows = <<>>
    /\ flag_rows = <<>>
    /\ outputs = Null
    /\ log = <<>>

\* _mock_map_to_tier1(ent, class_maps) returns
Classified ==
    /\ pc = "classify" /\ ret = <<>>
    /\ ret' = <<_mock_map_to_tier1(call.ent, call.class_maps)>>
    /\ UNCHANGED <<call, pc, Pipeline>>

SpecClassify == InitClassify /\ [][Classified]_vars

(***************************************************************************)
(* Properties of the run                                                   *)
(***************************************************************************)
\* the iterations that entered the try block
Attempted == {k \in DOMAIN log : log[k].outcome \in {"ok", "error"}}
\* those that reached "out_rows_assets.append"
Emitting == {k \in Attempted : log[k].stage \notin {"json", "pre"}}
Completed == {k \in Attempted : log[k].outcome = "ok"}

\* the record of iteration k and the rows it left in the four lists
PackAt(k) == infile[log[k].index].v
EntityAt(k) == Or(Get(PackAt(k), "entity"), Dict(<<>>))
AssetsOf(k) == SubSeq(assets_rows, log[k].before[1] + 1, log[k].after[1])
PropsOf(k) == SubSeq(props_rows, log[k].before[2] + 1, log[k].after[2])
RelOf(k) == SubSeq(rel_rows, log[k].before[3] + 1, log[k].after[3])
FlagsOf(k) == SubSeq(flag_rows, log[k].before[4] + 1, log[k].after[4])

Heuristic == IsMock(rule_tables.model_cfg)

AssetIds == {assets_rows[n].asset_id : n \in DOMAIN assets_rows}

\* C2: in every state of a run, every property row, relation row and flag
\* row carries an asset_id that some asset row carries.
C2_RowsReferenceAssets ==
    /\ \A n \in DOMAIN props_rows : props_rows[n].asset_id \in AssetIds
    /\ \A n \in DOMAIN rel_rows : rel_rows[n].asset_id \in AssetIds
    /\ \A n \in DOMAIN flag_rows : flag_rows[n].asset_id \in AssetIds

\* a strict run halted by a record that failed after emitting rows
C2_Witness ==
    /\ pc = "done" /\ ~args.tolerant /\ errors = 1
    /\ \E k \in Emitting :
          /\ log[k].outcome = "error"
          /\ PropsOf(k) # <<>>
          /\ RelOf(k) # <<>> \/ FlagsOf(k) # <<>>

\* the merged property map of iteration k, and its declared neighbors
MergedAt(k) ==
    MergeProps(flatten_known_props(Get(EntityAt(k), "properties")),
               property_extraction(rule_tables.model_cfg, log[k].presp))
DeclaredNeighbors(k) == Or(Get(PackAt(k), "neighbors"), List(<<>>)).items

\* C3: an iteration that raised nothing appended exactly one asset row, one
\* property row per entry of the merged property map (whatever its
\* normalization outcome) and one relation row per declared neighbor.
C3_OneRowPerItem ==
    \A k \in Completed :
        /\ Len(AssetsOf(k)) = 1
        /\ Len(PropsOf(k)) = Len(MergedAt(k).items)
        /\ \A n \in DOMAIN PropsOf(k) : PropsOf(k)[n].name = MergedAt(k).items[n][1]
        /\ Len(RelOf(k)) = Len(DeclaredNeighbors(k))

\* a record with a neighbor and several properties, one without a value
C3_Witness ==
    \E k \in Completed :
        /\ Len(RelOf(k)) >= 1
        /\ Len(PropsOf(k)) >= 2
        /\ \E n \in DOMAIN PropsOf(k) : PropsOf(k)[n].te_reason = "no_value"

\* the known properties and the inferred records of iteration k
KnownAt(k) == flatten_known_props(Get(EntityAt(k), "properties"))
InferredAt(k) == Or(property_extraction(rule_tables.model_cfg, log[k].presp), List(<<>>)).items

\* the last inferred record named name, 0 when there is none
LastInferred(recs, name) ==
    IF \E j \in DOMAIN recs : PyStr(Get(recs[j], "k")) = name
    THEN CHOOSE j \in DOMAIN recs :
            /\ PyStr(Get(recs[j], "k")) = name
            /\ \A j2 \in DOMAIN recs : PyStr(Get(recs[j2], "k")) = name => j2 <= j
    ELSE 0

IsInferredRow(row, rec) ==
    /\ row.value_raw = Get(rec, "v")
    /\ row.unit_raw = Get(rec, "u")
    /\ row.confidence = Float(Or(Get(rec, "confidence"), Num(Int2Num(0))))
    /\ row.source = "llm"

IsKnownRow(row, known) ==
    /\ HasKey(known, row.name)
    /\ row.value_raw = Get(known, row.name)
    /\ row.unit_raw = Null
    /\ row.confidence = Num(Int2Num(1))
    /\ row.source = "ifc"

AllKnownEmitted(k) ==
    \A n \in DOMAIN KnownAt(k).items :
        \E m \in DOMAIN PropsOf(k) : PropsOf(k)[m].name = KnownAt(k).items[n][1]

C5_PropertyNameUniquePerAsset ==
    \A m, n \in DOMAIN props_rows :
        (props_rows[m].asset_id = props_rows[n].asset_id
         /\ props_rows[m].name = props_rows[n].name) => m = n

\* the non-blank lines among the first n, and whether line n is within --limit
NonBlankUpTo(n) == Cardinality({m \in 1..n : infile[m].t # "blank"})
WithinLimit(n) == args.limit = 0 \/ NonBlankUpTo(n) <= args.limit
AttemptedLines == {log[k].index : k \in Attempted}

\* the rows written for iteration k are the rows it emitted
WrittenAsEmitted(k) ==
    /\ SubSeq(outputs.assets, log[k].before[1] + 1, log[k].after[1]) = log[k].emitted.assets
    /\ SubSeq(outputs.props, log[k].before[2] + 1, log[k].after[2]) = log[k].emitted.props
    /\ SubSeq(outputs.relations, log[k].before[3] + 1, log[k].after[3]) = log[k].emitted.rel
    /\ SubSeq(outputs.flags, log[k].before[4] + 1, log[k].after[4]) = log[k].emitted.flags

\* C6: without --tolerant nothing is processed after the first record that
\* raises, so at most one error is counted; with --tolerant every non-blank
\* line within --limit has been attempted once the loop is left; in both
\* modes the files written at the end hold, for every record attempted, the
\* rows it emitted.
C6_StrictStopsTolerantContinues ==
    /\ ~args.tolerant =>
          /\ errors <= 1
          /\ \A a, b \in Attempted : log[a].outcome = "error" => b <= a
    /\ (args.tolerant /\ pc # "loop") =>
          \A n \in DOMAIN infile :
              (infile[n].t # "blank" /\ WithinLimit(n)) => n \in AttemptedLines
    /\ pc = "done" =>
          /\ \A k \in Attempted : WrittenAsEmitted(k)
          /\ Len(outputs.assets) = Len(assets_rows) /\ Len(outputs.props) = Len(props_rows)
          /\ Len(outputs.relations) = Len(rel_rows) /\ Len(outputs.flags) = Len(flag_rows)

\* a strict run written out after a record that emitted rows and then
\* raised, with a line left unread
C6_Witness ==
    /\ pc = "done" /\ ~args.tolerant /\ errors = 1
    /\ line_no < Len(infile)
    /\ infile[line_no + 1].t # "blank"
    /\ outputs.props # <<>>

\* the classifier call failed: it raised, answered no JSON, JSON that is no
\* object, or an object without the two fields or with a confidence that is
\* no number
ClassifierFailed(resp) ==
    \/ resp.t # "json"
    \/ ~IsDict(resp.v)
    \/ ~HasKey(resp.v, "canonical_class")
    \/ ~HasKey(resp.v, "confidence")
    \/ FloatRaises(Get(resp.v, "confidence"))

\* C7 as stated: in delegated mode a record whose classifier call failed
\* gets canonical_class null and confidence 0.0.
C7_FailedClassifierGivesNull ==
    ~Heuristic =>
        \A k \in Emitting :
            ClassifierFailed(log[k].cresp) =>
                /\ AssetsOf(k)[1].canonical_class = Null
                /\ AssetsOf(k)[1].class_confidence = Num(Int2Num(0))

\* the extractor answered a JSON list of property records
WellFormedRecord(rec) ==
    /\ IsDict(rec)
    /\ IsStr(Get(rec, "k"))
    /\ Get(rec, "u") = Null \/ IsStr(Get(rec, "u"))
    /\ Get(rec, "confidence") = Null \/ IsNum(Get(rec, "confidence"))
ExtractorWellFormed(resp) ==
    /\ resp.t = "json"
    /\ resp.v.t = "list"
    /\ \A n \in DOMAIN resp.v.items : WellFormedRecord(resp.v.items[n])

\* C8 as stated: in delegated mode a record whose extractor call did
\* anything but answer a list of well-formed records is processed with no
\* inferred property and without an error.
C8_ExtractorFailureIsSoft ==
    ~Heuristic =>
        \A k \in Attempted :
            ~ExtractorWellFormed(log[k].presp) =>
                /\ log[k].outcome = "ok"
                /\ \A n \in DOMAIN PropsOf(k) : PropsOf(k)[n].source # "llm"

\* C9 as stated: no record fails in its validation step.
C9_ValidationNeverFailsRecord ==
    \A k \in Attempted : log[k].stage # "validate"

\* the neighbor classes observed for iteration k and those expected for its
\* canonical class
ObservedClasses(k) ==
    {Get(DeclaredNeighbors(k)[n], "class") :
        n \in {m \in DOMAIN DeclaredNeighbors(k) :
                  IsDict(DeclaredNeighbors(k)[m])
                  /\ Truthy(Get(DeclaredNeighbors(k)[m], "class"))}}
ExpectedList(canonical) ==
    IF IsStr(canonical)
    THEN Or(Get(Or(rule_tables.neighbors, Dict(<<>>)), canonical.s), List(<<>>)).items
    ELSE <<>>
ExpectedClasses(k) ==
    {ExpectedList(AssetsOf(k)[1].canonical_class)[n] :
        n \in DOMAIN ExpectedList(AssetsOf(k)[1].canonical_class)}
NeighborFlagged(k) ==
    \E n \in DOMAIN FlagsOf(k) : FlagsOf(k)[n].flag = "INCONSISTENT_NEIGHBOR"

\* C10 as stated: a record gets an INCONSISTENT_NEIGHBOR flag exactly when
\* its observed neighbor classes are non-empty, the expected classes of its
\* canonical class are non-empty, and the two sets are disjoint.
C10_NeighborFlagIffDisjoint ==
    \A k \in Completed :
        NeighborFlagged(k) <=>
            /\ ObservedClasses(k) # {}
            /\ ExpectedClasses(k) # {}
            /\ ObservedClasses(k) \cap ExpectedClasses(k) = {}

\* the reasons of the MISSING_REQUIRED_PROPERTY flags of iteration k, in order
IsMissingFlag(row) == row.flag = "MISSING_REQUIRED_PROPERTY"
MissingReasonsOf(k) ==
    [i \in DOMAIN SelectSeq(FlagsOf(k), IsMissingFlag) |->
        SelectSeq(FlagsOf(k), IsMissingFlag)[i].reason]
Occurrences(s, x) == Cardinality({i \in DOMAIN s : s[i] = x})

\* the required names of the class written to the asset row of iteration k
RequiredAt(k) == Elements(RequiredFor(AssetsOf(k)[1].canonical_class, rule_tables.required))

\* a raw value that is null, empty or blank
RawBlank(v) == v = Null \/ (IsStr(v) /\ Strip(v.s) = <<>>)
\* name is absent from the merged map of iteration k, or present with such a value
AbsentOrBlank(k, name) ==
    \/ ~HasKey(MergedAt(k), name.s)
    \/ RawBlank(Get(MergedAt(k), name.s).v)

\* C11 as stated: a record processed without error gets exactly one
\* MISSING_REQUIRED_PROPERTY flag for each required name of its class that
\* is absent from the merged property map or present with an empty, null or
\* blank raw value, and none for any other name: a required property
\* present with a numeric or text value is not flagged.
C11_MissingFlagIffAbsentOrBlank ==
    \A k \in Completed :
        /\ \A i \in DOMAIN RequiredAt(k) :
              Occurrences(MissingReasonsOf(k), RequiredAt(k)[i])
                  = IF AbsentOrBlank(k, RequiredAt(k)[i]) THEN 1 ELSE 0
        /\ \A j \in DOMAIN MissingReasonsOf(k) :
              \E i \in DOMAIN RequiredAt(k) : RequiredAt(k)[i] = MissingReasonsOf(k)[j]

\* the property names of the OUT_OF_RANGE flags of iteration k, in order
IsRangeFlag(row) == row.flag = "OUT_OF_RANGE"
RangeFlagNamesOf(k) ==
    [i \in DOMAIN SelectSeq(FlagsOf(k), IsRangeFlag) |->
        SelectSeq(FlagsOf(k), IsRangeFlag)[i].reason.parts[1]]

\* the bounds the range table configures for name
BoundOf(name, side) ==
    IF HasKey(rule_tables.ranges, name) /\ IsDict(Get(rule_tables.ranges, name))
    THEN Get(Get(rule_tables.ranges, name), side)
    ELSE Null
BelowMin(name, value_norm) ==
    IsNum(BoundOf(name, "min")) /\ NumLt(value_norm.x, BoundOf(name, "min").x)
AboveMax(name, value_norm) ==
    IsNum(BoundOf(name, "max")) /\ NumLt(BoundOf(name, "max").x, value_norm.x)
\* name is in the range table, the value is a number, and it lies strictly
\* below the configured min or strictly above the configured max
StrictlyOutside(name, value_norm) ==
    /\ HasKey(rule_tables.ranges, name)
    /\ IsNum(value_norm)
    /\ BelowMin(name, value_norm) \/ AboveMax(name, value_norm)
OnBound(name, value_norm) ==
    /\ HasKey(rule_tables.ranges, name)
    /\ IsNum(value_norm)
    /\ BoundOf(name, "min") = value_norm \/ BoundOf(name, "max") = value_norm

\* C12: for a record processed without error, a property gets an
\* OUT_OF_RANGE flag (exactly one) if and only if its name is in the range
\* table, its normalized value is a number and the value is strictly below
\* the configured min or strictly above the configured max; a value equal
\* to a bound is not flagged, an absent bound does not bound, and no other
\* OUT_OF_RANGE flag is emitted.
C12_OutOfRangeIffStrictlyOutside ==
    \A k \in Completed :
        /\ \A i \in DOMAIN PropsOf(k) :
              Occurrences(RangeFlagNamesOf(k), PropsOf(k)[i].name)
                  = IF StrictlyOutside(PropsOf(k)[i].name, PropsOf(k)[i].value_norm)
                    THEN 1 ELSE 0
        /\ \A j \in DOMAIN RangeFlagNamesOf(k) :
              \E i \in DOMAIN PropsOf(k) : PropsOf(k)[i].name = RangeFlagNamesOf(k)[j]

\* a run with a record that has a value above its max (flagged) next to a
\* value equal to its min (not flagged), and a record with a value below a
\* min that has no max (flagged) next to a value inside its range
C12_Witness ==
    /\ \E k \in Completed : \E i, j \in DOMAIN PropsOf(k) :
          /\ AboveMax(PropsOf(k)[i].name, PropsOf(k)[i].value_norm)
          /\ Occurrences(RangeFlagNamesOf(k), PropsOf(k)[i].name) = 1
          /\ OnBound(PropsOf(k)[j].name, PropsOf(k)[j].value_norm)
          /\ Occurrences(RangeFlagNamesOf(k), PropsOf(k)[j].name) = 0
    /\ \E k \in Completed : \E i, j \in DOMAIN PropsOf(k) :
          /\ BelowMin(PropsOf(k)[i].name, PropsOf(k)[i].value_norm)
          /\ BoundOf(PropsOf(k)[i].name, "max") = Null
          /\ Occurrences(RangeFlagNamesOf(k), PropsOf(k)[i].name) = 1
          /\ HasKey(rule_tables.ranges, PropsOf(k)[j].name)
          /\ IsNum(PropsOf(k)[j].value_norm)
          /\ ~StrictlyOutside(PropsOf(k)[j].name, PropsOf(k)[j].value_norm)

\* the LOW_AI_CONF flags of iteration k, and the property rows of k whose
\* own confidence is a number below the threshold
IsLowConfFlag(row) == row.flag = "LOW_AI_CONF"
LowConfFlagsOf(k) == SelectSeq(FlagsOf(k), IsLowConfFlag)
BelowThreshold(confidence) ==
    IsNum(confidence) /\ NumLt(confidence.x, rule_tables.conf_threshold)
LowConfProps(k) ==
    {i \in DOMAIN PropsOf(k) : BelowThreshold(PropsOf(k)[i].confidence)}

\* C13 as stated: a record processed without error gets one LOW_AI_CONF
\* flag for its classification when the class confidence is strictly below
\* the threshold, and one more for each merged property whose own
\* confidence is strictly below the threshold, and no other.
C13_LowConfForClassAndProperties ==
    \A k \in Completed :
        Len(LowConfFlagsOf(k))
            = (IF BelowThreshold(AssetsOf(k)[1].class_confidence) THEN 1 ELSE 0)
              + Cardinality(LowConfProps(k))

\* C14: in heuristic mode every asset row carries class confidence 0.9
\* exactly when a canonical class was produced and 0.5 exactly when the
\* canonical class is null.
C14_MockConfidenceTellsMapped ==
    Heuristic =>
        \A k \in Emitting :
            /\ AssetsOf(k)[1].class_confidence \in {Num(Dec(9, 1)), Num(Dec(5, 1))}
            /\ AssetsOf(k)[1].class_confidence = Num(Dec(9, 1))
                  <=> AssetsOf(k)[1].canonical_class # Null
            /\ AssetsOf(k)[1].class_confidence = Num(Dec(5, 1))
                  <=> AssetsOf(k)[1].canonical_class = Null

\* a heuristic run that wrote one asset with a class and one without
C14_Witness ==
    /\ Heuristic
    /\ \E a, b \in Emitting :
          /\ AssetsOf(a)[1].canonical_class # Null
          /\ AssetsOf(a)[1].class_confidence = Num(Dec(9, 1))
          /\ AssetsOf(b)[1].canonical_class = Null
          /\ AssetsOf(b)[1].class_confidence = Num(Dec(5, 1))

\* the allowed-class whitelist of the loaded class maps
AllowedClasses == Or(Get(rule_tables.class_maps, "allowed_classes"), List(<<>>))

\* C15 as stated: every canonical class written to an asset row, in
\* heuristic and in delegated mode, is null or a member of the
\* allowed-class whitelist.
C15_ClassNullOrAllowed ==
    \A n \in DOMAIN assets_rows :
        \/ assets_rows[n].canonical_class = Null
        \/ InContainer(assets_rows[n].canonical_class, AllowedClasses)

\* C16 as stated: every asset row carries a classification confidence
\* within [0, 1], whatever confidence the external model returned.
C16_ConfidenceInUnitInterval ==
    \A n \in DOMAIN assets_rows :
        /\ IsNum(assets_rows[n].class_confidence)
        /\ NumLe(Int2Num(0), assets_rows[n].class_confidence.x)
        /\ NumLe(assets_rows[n].class_confidence.x, Int2Num(1))

(***************************************************************************)
(* Properties of normalize_unit                                            *)
(***************************************************************************)
\* the two calls were made
CalledTwice == pc = "call" /\ Len(ret) = 2
CalledOnce == pc = "call" /\ Len(ret) >= 1
CallKind == _canon_kind(call.name)

\* C17: normalize_unit is idempotent: for every property name and every
\* (value, unit) pair a call returned, the call with that name, value and unit
\* does not raise and returns the identical value and unit.
C17_NormalizeIdempotent ==
    /\ Len(ret) = 1 =>
         ~NormalizeRaises(call.name, ret[1].v, ret[1].u, call.unit_overrides)
    /\ CalledTwice => ret[2].v = ret[1].v /\ ret[2].u = ret[1].u

\* a value that was converted (1200 mm to 1.2 m) was normalized again
C17_Witness ==
    /\ CalledTwice
    /\ CallKind = "length"
    /\ call.value = Num(Int2Num(1200)) /\ call.unit = U_mm
    /\ ret[1] = NormResult(Num(Dec(12, 1)), U_m, "mm_to_m")
    /\ ret[2].v = Num(Dec(12, 1)) /\ ret[2].u = U_m

\* the value and the canonical unit the first call works on
CallValue ==
    IF IsStr(call.value) THEN _parse_num_unit_from_string(call.value)[1]
    ELSE _to_float(call.value)
CallUnit == CanonOrKeep(ChosenUnit(call.name, call.value, call.unit, call.unit_overrides))

\* the conversion table: <<kind, source unit, n, e, k>> stands for
\* "target value = source value * (n * 10^-e) / k"
LinearTable ==
    {<<"length", <<"m">>, 1, 0, 1>>, <<"length", <<"m","m">>, 1, 3, 1>>, <<"length", <<"c","m">>, 1, 2, 1>>,
     <<"length", <<"i","n">>, 254, 4, 1>>, <<"length", <<"f","t">>, 3048, 4, 1>>,
     <<"area", <<"m","²">>, 1, 0, 1>>, <<"area", <<"m","m","²">>, 1, 6, 1>>, <<"area", <<"c","m","²">>, 1, 4, 1>>,
     <<"area", <<"f","t","²">>, 9290304, 8, 1>>,
     <<"volume", <<"m","³">>, 1, 0, 1>>, <<"volume", <<"L">>, 1, 3, 1>>, <<"volume", <<"m","L">>, 1, 6, 1>>,
     <<"volume", <<"f","t","³">>, 283168466, 10, 1>>, <<"volume", <<"g","a","l">>, 378541178, 11, 1>>,
     <<"vol_flow", <<"L","/","s">>, 1, 0, 1>>, <<"vol_flow", <<"L","/","m","i","n">>, 1, 0, 60>>,
     <<"vol_flow", <<"m","³","/","h">>, 1000, 0, 3600>>, <<"vol_flow", <<"m","³","/","s">>, 1000, 0, 1>>,
     <<"vol_flow", <<"C","F","M">>, 47194745, 8, 1>>, <<"vol_flow", <<"G","P","M">>, 630902, 7, 1>>,
     <<"temperature", <<"°","C">>, 1, 0, 1>>,
     <<"pressure", <<"P","a">>, 1, 0, 1>>, <<"pressure", <<"k","P","a">>, 1000, 0, 1>>,
     <<"pressure", <<"M","P","a">>, 1000000, 0, 1>>, <<"pressure", <<"b","a","r">>, 100000, 0, 1>>,
     <<"pressure", <<"p","s","i">>, 689475729, 5, 1>>,
     <<"power", <<"k","W">>, 1, 0, 1>>, <<"power", <<"W">>, 1, 3, 1>>, <<"power", <<"h","p">>, 745699872, 9, 1>>,
     <<"power", <<"B","T","U","/","h">>, 29307107, 11, 1>>}

TargetUnit(kind) ==
    CASE kind = "length" -> Str(<<"m">>)
      [] kind = "area" -> Str(<<"m","²">>)
      [] kind = "volume" -> Str(<<"m","³">>)
      [] kind = "vol_flow" -> Str(<<"L","/","s">>)
      [] kind = "temperature" -> Str(<<"°","C">>)
      [] kind = "pressure" -> Str(<<"P","a">>)
      [] kind = "power" -> Str(<<"k","W">>)

\* out = src * (n * 10^-e) / k, stated without a division
IsScaled(out, src, n, e, k) == NumMul(out.x, Int2Num(k)) = NumMul(src.x, Dec(n, e))
\* out = (src - 32) * 5 / 9 and out = src - 273.15
IsFromFahrenheit(out, src) ==
    NumMul(out.x, Int2Num(9)) = NumMul(NumSub(src.x, Int2Num(32)), Int2Num(5))
IsFromKelvin(out, src) == out.x = NumSub(src.x, Dec(27315, 2))
\* lo * 10^-e <= out < hi * 10^-e
Between(out, lo, hi, e) == NumLe(Dec(lo, e), out.x) /\ NumLt(out.x, Dec(hi, e))

CallIs(name, value, unit) == call.name = name /\ call.value = value /\ call.unit = unit

\* what the conversion table says of a result "out" of the kind, for the
\* source value src in the canonical unit u
AgreesWithTable(kind, src, u, out) ==
    /\ \A row \in LinearTable :
         kind = row[1] /\ u = Str(row[2]) =>
            out.u = TargetUnit(kind) /\ IsScaled(out.v, src, row[3], row[4], row[5])
    /\ kind = "temperature" /\ u = Str(<<"°","F">>) =>
            out.u = TargetUnit(kind) /\ IsFromFahrenheit(out.v, src)
    /\ kind = "temperature" /\ u = Str(<<"K">>) =>
            out.u = TargetUnit(kind) /\ IsFromKelvin(out.v, src)

\* C18: for each physical kind and each source unit of its conversion table,
\* normalize_unit returns the kind's target unit and the value converted by
\* the table's factor (affine for Fahrenheit and Kelvin); 1200 mm gives
\* 1.2 m, 68 °F gives 20 °C, 1 bar gives 100000 Pa and 1 m³/h gives
\* 0.2778 L/s to four decimals.
C18_ConvertsByTable ==
    CalledOnce /\ CallValue # Null =>
        /\ AgreesWithTable(CallKind, CallValue, CallUnit, ret[1])
        /\ CallIs(<<"L","e","n","g","t","h">>, Num(Int2Num(1200)), Str(<<"m","m">>)) =>
                ret[1].v = Num(Dec(12, 1)) /\ ret[1].u = Str(<<"m">>)
        /\ CallIs(<<"T","e","m","p","e","r","a","t","u","r","e">>, Num(Int2Num(68)), Str(<<"°","F">>)) =>
                ret[1].v = Num(Int2Num(20)) /\ ret[1].u = Str(<<"°","C">>)
        /\ CallIs(<<"P","r","e","s","s","u","r","e">>, Num(Int2Num(1)), Str(<<"b","a","r">>)) =>
                ret[1].v = Num(Int2Num(100000)) /\ ret[1].u = Str(<<"P","a">>)
        /\ CallIs(<<"F","l","o","w">>, Num(Int2Num(1)), Str(<<"m","³","/","h">>)) =>
                Between(ret[1].v, 27775, 27785, 5) /\ ret[1].u = Str(<<"L","/","s">>)

\* 68 °F was converted, by the affine rule, to 20 °C
C18_Witness ==
    /\ CalledOnce
    /\ CallIs(<<"T","e","m","p","e","r","a","t","u","r","e">>, Num(Int2Num(68)), Str(<<"°","F">>))
    /\ ret[1] = NormResult(Num(Int2Num(20)), Str(<<"°","C">>), "F_to_C")

\* the caller supplied no unit: none embedded in a text value, no unit
\* argument, no default override for the name
EmbeddedUnit == IF IsStr(call.value) THEN _parse_num_unit_from_string(call.value)[2] ELSE Null
NoUnitSupplied ==
    /\ ~Truthy(EmbeddedUnit)
    /\ ~Truthy(call.unit)
    /\ ~Truthy(DefaultUnit(call.name, call.unit_overrides))
InUnitInterval(v) == NumLe(Int2Num(0), v.x) /\ NumLe(v.x, Int2Num(1))

\* C19: for a property of kind percent, a value in [0, 1] with no unit is
\* scaled by 100 and returned with unit % and reason fraction_to_percent; a
\* value greater than 1, or any value given with an explicit unit, is
\* returned unchanged in value.
C19_FractionToPercent ==
    CalledOnce /\ CallKind = "percent" /\ CallValue # Null =>
        /\ InUnitInterval(CallValue) /\ NoUnitSupplied =>
              /\ IsScaled(ret[1].v, CallValue, 100, 0, 1)
              /\ ret[1].u = Str(<<"%">>)
              /\ ret[1].reason = "fraction_to_percent"
        /\ NumLt(Int2Num(1), CallValue.x) => ret[1].v = CallValue
        /\ Truthy(call.unit) => ret[1].v = CallValue

\* the bare fraction 0.42 became 42 %
C19_Witness ==
    /\ CalledOnce
    /\ CallIs(<<"E","f","f","i","c","i","e","n","c","y">>, Num(Dec(42, 2)), Null)
    /\ ret[1] = NormResult(Num(Int2Num(42)), Str(<<"%">>), "fraction_to_percent")

\* the reason codes that tell an assumed unit
AssumeReasons ==
    {"assume_m", "assume_m2", "assume_m3", "assume_Lps", "assume_C", "assume_Pa", "assume_kW"}

\* C20: whenever normalize_unit gets a parsable value with no unit (none
\* embedded in the text, no unit argument, no default override) and fills in
\* the default unit of the kind, the reason is an assume_<unit> code; the
\* reason "ok" is returned only when a unit was supplied.
C20_AssumedUnitTold ==
    CalledOnce /\ CallValue # Null =>
        /\ NoUnitSupplied /\ Truthy(ret[1].u) => ret[1].reason \in AssumeReasons
        /\ ret[1].reason = "ok" => ~NoUnitSupplied

\* the raw value holds no number: None, or a text without any digit
HasDigit(s) == \E i \in DOMAIN s : IsDigit(s[i])
NoNumberIn(value) == value = Null \/ (IsStr(value) /\ ~HasDigit(value.s))

\* C21: when no numeric value can be parsed from the raw value (None, or a
\* text without a number), normalize_unit returns a null value with reason
\* no_value, for every property kind and every unit argument.
C21_NoValueWithoutNumber ==
    CalledOnce /\ NoNumberIn(call.value) =>
        ret[1].v = Null /\ ret[1].reason = "no_value"

\* nothing of the run happened: no record counted, no row, no file written
RunDidNotStart ==
    /\ line_no = 0 /\ total = 0 /\ errors = 0 /\ log = <<>>
    /\ assets_rows = <<>> /\ props_rows = <<>> /\ rel_rows = <<>> /\ flag_rows = <<>>
    /\ outputs = Null

\* C22: if a required rule file (class map, required properties, ranges or
\* neighbor rules) is missing, or the input path is unreadable, the run fails
\* immediately: no record is processed and no output rows are produced.
C22_MissingFileFailsRun == missing_files # {} => RunDidNotStart /\ pc \in {"loop", "open", "failed"}

\* the rows of process_one_pack on the record of iteration k taken alone,
\* with the answers the external model gave in that iteration
AloneAt(k) == TryLine(infile[log[k].index], rule_tables, log[k].cresp, log[k].presp)

\* the rows a tolerant, unlimited heuristic run appends over the lines, in
\* their order
RECURSIVE RowsOfBatch(_, _)
RowsOfBatch(lines, r) ==
    IF lines = <<>> THEN NoRows
    ELSE LET rest == RowsOfBatch(Tail(lines), r)
             out == IF Head(lines).t = "blank" THEN NoRows
                    ELSE TryLine(Head(lines), r, LLMRaise, LLMRaise)
         IN  PackOut(out.assets \o rest.assets, out.props \o rest.props,
                     out.rel \o rest.rel, out.flags \o rest.flags, "")

Reverse(s) == [i \in DOMAIN s |-> s[Len(s) + 1 - i]]
CountIn(s, x) == Cardinality({i \in DOMAIN s : s[i] = x})
SameMultiset(s, t) ==
    /\ Len(s) = Len(t)
    /\ \A i \in DOMAIN s : CountIn(s, s[i]) = CountIn(t, s[i])

\* the run processed every record of the file, and would in any order
WholeBatch == pc = "done" /\ args.limit = 0 /\ (args.tolerant \/ errors = 0)

\* the rows iteration k appended are "out"; the four lists hold the rows of
\* "batch" up to their order
AppendedAt(k, out) ==
    /\ AssetsOf(k) = out.assets
    /\ PropsOf(k) = out.props
    /\ RelOf(k) = out.rel
    /\ FlagsOf(k) = out.flags
SameRowsAs(batch) ==
    /\ SameMultiset(assets_rows, batch.assets)
    /\ SameMultiset(props_rows, batch.props)
    /\ SameMultiset(rel_rows, batch.rel)
    /\ SameMultiset(flag_rows, batch.flags)

C24_NamesDifferBeyondCase ==
    \A i, j \in DOMAIN props_rows :
        /\ props_rows[i].asset_id = props_rows[j].asset_id
        /\ Lower(props_rows[i].name) = Lower(props_rows[j].name)
        => props_rows[i].name = props_rows[j].name


IsPrefix(s, t) == Len(s) <= Len(t) /\ SubSeq(t, 1, Len(s)) = s

\* every row list still begins with the rows it held before the step
RowsKept ==
    /\ IsPrefix(assets_rows, assets_rows')
    /\ IsPrefix(props_rows, props_rows')
    /\ IsPrefix(rel_rows, rel_rows')
    /\ IsPrefix(flag_rows, flag_rows')

\* C25: a call of process_one_pack, returning or raising, leaves its input
\* record and the rule tables as they were, and only appends to the four row
\* lists: the rows already there stay, unmodified and in their order.
C25_OnlyAppends == [][infile' = infile /\ rule_tables' = rule_tables /\ RowsKept]_vars

\* a call appended rows of every table behind rows that were already there
C25_Witness ==
    \E k \in Emitting :
        \A t \in 1..4 : log[k].before[t] > 0 /\ log[k].after[t] > log[k].before[t]

\* what the value of the call holds: <<number, embedded unit>>
ReadFrom(value) ==
    IF IsStr(value) THEN _parse_num_unit_from_string(value) ELSE <<value, Null>>

\* the first call returned what a call on number and unit "u" alone, with no
\* override table, returns
SameAsWithUnit(number, u) == ret[1] = normalize_unit(call.name, number, u, Null)

UnitByPrecedence(embedded, unit, default_u) ==
    IF Truthy(embedded) THEN embedded ELSE IF Truthy(unit) THEN unit ELSE default_u

PrecedenceKept(read) ==
    SameAsWithUnit(read[1], UnitByPrecedence(read[2], call.unit,
                                             DefaultUnit(call.name, call.unit_overrides)))

\* C26: the unit is the one embedded in a text value, else the unit
\* argument, else the default override of the property; the override is used
\* only when neither the value nor the argument supplies a unit.
C26_UnitPrecedence == Len(ret) >= 1 => PrecedenceKept(ReadFrom(call.value))

\* Width has the default override mm: the text "25 cm" given with the unit
\* argument "ft" is converted from centimetres
C26_Witness ==
    /\ Len(ret) >= 1
    /\ CallIs(<<"W","i","d","t","h">>, Str(<<"2","5"," ","c","m">>), Str(<<"f","t">>)) /\ call.unit_overrides = UnitOverrides
    /\ ret[1] = NormResult(Num(Dec(25, 2)), U_m, "cm_to_m")

(***************************************************************************)
(* Properties of _mock_map_to_tier1                                        *)
(***************************************************************************)
CallIfc == Or(Get(call.ent, "ifc_class"), Str(<<>>)).s
CallName == Or(Get(call.ent, "name"), Str(<<>>))
CallType ==
    _norm(Or(Get(Or(Get(call.ent, "attributes"), Dict(<<>>)), <<"P","r","e","d","e","f","i","n","e","d","T","y","p","e">>), Str(<<>>)))
CallKeywords == Or(Get(call.class_maps, "keyword_overrides"), Dict(<<>>))
BaseEntry == Get(Or(Get(call.class_maps, "ifc_to_canonical"), Dict(<<>>)), CallIfc)

HitsOneOf(labs) == \E lab \in labs : _hit(CallName, Get(CallKeywords, lab))

\* the predefined type or the name meets a condition of the rule of the
\* class; a rule without any condition on them is met by the class alone
OverrideConditionMet ==
    CASE CallIfc = <<"I","f","c","W","a","l","l">> -> HitsOneOf({<<"E","x","t","e","r","n","a","l"," ","w","a","l","l","s"," ","(","f","a","ç","a","d","e",")">>, <<"I","n","t","e","r","n","a","l"," ","w","a","l","l","s">>})
      [] CallIfc = <<"I","f","c","S","l","a","b">> ->
           \/ CallType \in {<<"b","a","s","e","s","l","a","b">>, <<"f","l","o","o","r">>, <<"r","o","o","f">>}
           \/ HitsOneOf({<<"F","o","u","n","d","a","t","i","o","n","_","S","l","a","b">>, <<"F","l","o","o","r","s">>, <<"R","o","o","f">>})
      [] CallIfc = <<"I","f","c","C","o","v","e","r","i","n","g">> -> CallType \in {<<"c","e","i","l","i","n","g">>, <<"f","l","o","o","r","i","n","g">>}
      [] CallIfc = <<"I","f","c","C","o","l","u","m","n">> -> HitsOneOf({<<"C","o","l","u","m","n"," ","(","S","t","e","e","l",")">>})
      [] CallIfc = <<"I","f","c","B","e","a","m">> -> HitsOneOf({<<"B","e","a","m"," ","(","S","t","e","e","l",")">>})
      [] CallIfc = <<"I","f","c","F","i","r","e","S","u","p","p","r","e","s","s","i","o","n","T","e","r","m","i","n","a","l">> ->
           HitsOneOf({<<"S","p","r","i","n","k","l","e","r">>, <<"E","x","t","i","n","g","u","i","s","h","e","r","s">>, <<"H","o","s","e"," ","r","e","e","l">>, <<"H","y","d","r","a","n","t">>})
      [] CallIfc = <<"I","f","c","F","l","o","w","T","e","r","m","i","n","a","l">> -> HitsOneOf({<<"S","i","n","k">>, <<"H","o","s","e"," ","r","e","e","l">>, <<"H","y","d","r","a","n","t">>})
      [] CallIfc = <<"I","f","c","L","a","m","p">> -> HitsOneOf({<<"E","m","e","r","g","e","n","c","y"," ","l","i","g","h","t","i","n","g">>})
      [] CallIfc = <<"I","f","c","A","l","a","r","m">> ->
           HitsOneOf({<<"F","i","r","e"," ","A","l","a","r","m"," ","C","o","n","t","r","o","l"," ","p","a","n","e","l">>, <<"A","u","d","i","b","l","e","/","v","i","s","u","a","l"," ","d","i","s","c","h","a","r","g","e"," ","a","l","a","r","m">>})
      [] CallIfc \in {<<"I","f","c","D","u","c","t","S","e","g","m","e","n","t">>, <<"I","f","c","S","e","n","s","o","r">>, <<"I","f","c","L","i","g","h","t","F","i","x","t","u","r","e">>, <<"I","f","c","S","w","i","t","c","h","i","n","g","D","e","v","i","c","e">>,
                      <<"I","f","c","O","u","t","l","e","t">>, <<"I","f","c","C","a","b","l","e","S","e","g","m","e","n","t">>, <<"I","f","c","C","a","b","l","e","F","i","t","t","i","n","g">>} -> TRUE
      [] OTHER -> FALSE

BeforeFallback == ClassOverride(CallIfc, CallName, CallType, CallKeywords, BaseEntry)

\* C27: an entity whose predefined type and name meet no override condition
\* gets the base-map entry of its class when there is one, and the
\* prefix-stripping fallback decides only when the earlier rules gave no class.
C27_LaterRuleOnlyWhenItFires ==
    pc = "classify" /\ Len(ret) = 1 =>
        /\ ~OverrideConditionMet /\ Truthy(BaseEntry) => ret[1] = BaseEntry
        /\ Truthy(BeforeFallback) => ret[1] = BeforeFallback

\* a text the general pattern reads as a number and a length unit, without
\* any character of the diameter prefix
LengthTokens == {<<"m","m">>, <<"c","m">>, <<"m">>, <<"i","n">>, <<"f","t">>}
DiamMarkers == {"ø", "Ø", "φ", "p", "h", "i"}
NumberAndLength(s, nm) ==
    /\ nm # Null /\ Lower(nm.unit) \in LengthTokens
    /\ s[1] \in {"+", "-"} \/ IsDigit(s[1])
    /\ \A p \in DOMAIN s : p < Len(s) - Len(nm.unit) => Lower(<<s[p]>>)[1] \notin DiamMarkers
ReadsAsGeneral(v0, s, nm) ==
    NumberAndLength(s, nm) => _parse_num_unit_from_string(v0)[1] = _to_float(Str(nm.num))

\* C28: for a text that is a number followed by a length unit, without a
\* diameter marker, the parsed number is the one the general pattern reads,
\* sign and thousands separators included.
C28_DiameterPatternKeepsNumber ==
    Len(ret) >= 1 /\ IsStr(call.value) /\ Strip(call.value.s) # <<>> =>
        ReadsAsGeneral(call.value, Strip(call.value.s), NumUnitSearch(Strip(call.value.s)))

\* the iterations whose try block raised
Failed == {k \in Attempted : log[k].outcome = "error"}

\* C29: a record whose processing raises leaves the four row lists as they
\* were before it: it contributes no row to any table.
C29_FailedRecordLeavesNoRows == \A k \in Failed : log[k].after = log[k].before

\* C30: at the end of a run the reported total of input records equals the
\* number of asset rows written plus the reported number of errors.
C30_TotalIsAssetsPlusErrors ==
    pc = "done" =>
        outputs.stage_report.total_input_lines =
            outputs.stage_report.assets_written + outputs.stage_report.errors
====
